---- MODULE Spec2Model ----
(***************************************************************************)
(* Model of the synchronization core of mx-puppet-bridge:                  *)
(*   RoomSyncroniser  (src/src/db/schema/v10.ts, second file in it)        *)
(*   UserSyncroniser  (src/unnamed/part_000)                               *)
(*   PuppetBridge.uploadContent (src/src/puppetbridge.ts)                  *)
(*                                                                         *)
(* Every call is an asynchronous task.  An action of a call is one         *)
(* resumption: the effect of the collaborator call the task was awaiting,  *)
(* followed by the synchronous code up to the next await.                  *)
(***************************************************************************)
EXTENDS Integers, Sequences, FiniteSets, TLC

\* ------------------------------------------------------------------ bounds
NumRoomCalls == 2

NumUserCalls == 2
NumUploadCalls == 2
NumLeaveCalls == 2
MaxDeleteRooms == 2
NumLookupCalls == 3
NumHookCalls == 1
\* getMxid calls racing with a deleteForPuppet call
NumRaceCalls == 1
\* getMxid calls reconciling one mapped room
NumReconcileCalls == 2
NumWaitCalls == 2
MaxBridgeCalls == 2
MaxSuffixLen == 3
MaxRoomIdLen == 2

\* ------------------------------------------------------------- value sets
NoHolder == 0
RoomCalls == 1..NumRoomCalls
\* the calls of the scenario of creations and lookups of one room
LookupCalls == 1..NumLookupCalls
\* the calls of the scenario of waits on a lock key
WaitCalls == 1..NumWaitCalls
\* the calls of the scenario of first sights answered by creation hooks
HookCalls == 1..NumHookCalls
RoomKeys == {<<3, "chan1">>}
\* the pair of a hook answer that is null
NullData == <<0, "">>
\* what a createRoom hook may answer for a request: the same pair, another or null
HookKeys == RoomKeys \cup {<<3, "chan2">>, NullData}
NoGroup == "none"
GroupIds == {NoGroup, "g1", "g2"}
Names == {"a", "b"}
\* the name a createRoom hook may put into its override data
HookNames == {"b"}
\* the observed room data the calls are made with: <<name, groupId>>
RoomData == {<<"a", NoGroup>>, <<"a", "g1">>, <<"b", "g2">>}
NoRoom == [mxid |-> -1, key |-> <<0, "">>, name |-> "", groupId |-> "none"]
ExternalMxid == 0
BotUser == "@bot"
GhostA == "@_ghost_a"
GhostB == "@_ghost_b"
Clients == {BotUser}
NoRet == [mxid |-> -1, created |-> FALSE]
UserCalls == 1..NumUserCalls
\* the remote users of puppet 3; "me" is the remote id of the puppet's own account
PuppetUserId == "me"
UserKeys == {<<3, "u1">>, <<3, PuppetUserId>>}
HookUserKeys == UserKeys \cup {<<3, "u2">>, NullData}
NoUser == [name |-> "none"]
UploadCalls == 1..NumUploadCalls
\* what uploadContent is called with: two string locators and a raw buffer
Locators == {"http://a", "http://b"}
Buffers == {"bytes1"}
Things == Locators \cup Buffers
NoMxc == 0
LeaveCalls == 1..NumLeaveCalls
GhostC == "@_ghost_c"
Ghosts == {GhostA, GhostB, GhostC}
NoUserId == ""
\* the target-side room the maybeLeaveGhost calls are about
LeaveRoom == 1
\* the remote room ids of the rooms deleteForPuppet finds mapped
ChanIds == <<"chan1", "chan2", "chan3", "chan4">>
PuppetIds == {3, 7}
\* a real account (double puppet) recorded as a room's operator
RealUser == "@alice"
\* the rooms a ghost has a profile override in
OverrideRooms == {"!r1", "!r2"}
\* the errcode of a rejected transport call, "nobody" for an error without a body
ErrCodes == {"M_FORBIDDEN", "M_UNKNOWN", "nobody"}
\* the events redactEvent is called for
EventIds == {"$e1", "$e2"}

VARIABLES
    mxidLock,       \* Lock<string> of RoomSyncroniser: key -> registered holder
    roomStore,      \* DbRoomStore: set of persisted room mappings
    roomOps,        \* DbRoomStore operator records: mxid -> operator account
    matrixRooms,    \* rooms created on the target side by createRoom
    groupRooms,     \* groupSync: <<groupId, key>> associations
    groupSyncEnabled, \* bridge.groupSyncEnabled
    roomCalls,      \* the asynchronous calls into RoomSyncroniser
    clientLock,     \* Lock<string> of UserSyncroniser: key -> registered holder
    userStore,      \* DbUserStore: key -> persisted ghost mapping
    ghostNames,     \* target-side display name of each ghost
    userCalls,      \* the asynchronous calls into UserSyncroniser
    mxcLookupLock,  \* Lock<string> of PuppetBridge: fingerprint -> registered holder
    fileStore,      \* store.getFileMxc / setFileMxc: fingerprint -> uploaded reference
    uploadCount,    \* number of client.uploadContent calls that reached the transport
    uploadCalls,    \* the asynchronous calls of PuppetBridge.uploadContent
    ghostsInRoom,   \* puppetStore: <<mxid, ghost>> for the ghosts recorded in a room
    joined,         \* target side: <<mxid, account>> for the accounts joined to a room
    powerUsers,     \* target side: <<mxid, account>> for the accounts with operator power
    leaveCalls,     \* the asynchronous calls of RoomSyncroniser.maybeLeaveGhost
    roomAliases,    \* target side: <<mxid, alias>> for the aliases of a room
    deleteCall,     \* the call of RoomSyncroniser.deleteForPuppet
    overrideStore,  \* DbUserStore room overrides of one ghost: roomId -> override name
    memberNames,    \* target side: the ghost's m.room.member displayname per room
    overrideCall,   \* the call of UserSyncroniser.updateRoomOverride
    redacted,       \* target side: the events that are redacted
    redactCall,     \* the call of PuppetBridge.redactEvent
    bridgeEvents,   \* target side: the m.bridge state events sent, in order
    bridgeCall,     \* the call of RoomSyncroniser.updateBridgeInformation
    partsCall,      \* the call of RoomSyncroniser.getPartsFromMxid
    bgCall          \* the continuation getClient leaves behind after its profile writes

roomVars == <<mxidLock, roomStore, roomOps, matrixRooms, groupRooms,
              groupSyncEnabled, roomCalls>>

userVars == <<clientLock, userStore, ghostNames, userCalls>>

uploadVars == <<mxcLookupLock, fileStore, uploadCount, uploadCalls>>

puppetVars == <<ghostsInRoom, joined, powerUsers>>

deleteVars == <<roomAliases, deleteCall>>

overrideVars == <<overrideStore, memberNames, overrideCall>>

redactVars == <<redacted, redactCall>>

infoVars == <<bridgeEvents, bridgeCall, partsCall, bgCall>>

vars == <<roomVars, userVars, uploadVars, puppetVars, leaveCalls, deleteVars,
          overrideVars, redactVars,
          infoVars>>

notRoomVars == <<userVars, uploadVars, puppetVars, leaveCalls, deleteVars,
                 overrideVars, redactVars,
          infoVars>>

notUserVars == <<roomVars, uploadVars, puppetVars, leaveCalls, deleteVars,
                 overrideVars, redactVars,
          infoVars>>

notUploadVars == <<roomVars, userVars, puppetVars, leaveCalls, deleteVars,
                   overrideVars, redactVars,
          infoVars>>

\* what updateRoomOverride never touches
notOverrideVars == <<roomVars, userVars, uploadVars, puppetVars, leaveCalls, deleteVars,
                     redactVars,
          infoVars>>

\* what redactEvent never touches
notRedactVars == <<roomVars, userVars, uploadVars, puppetVars, leaveCalls, deleteVars,
                   overrideVars,
          infoVars>>

\* what updateBridgeInformation and getPartsFromMxid never touch
notInfoVars == <<roomVars, userVars, uploadVars, puppetVars, leaveCalls, deleteVars,
                 overrideVars, redactVars>>

\* what deleteForPuppet never touches
notDeleteVars == <<mxidLock, matrixRooms, groupRooms, groupSyncEnabled, roomCalls,
                   clientLock, ghostNames, userCalls, uploadVars, powerUsers, leaveCalls,
                   overrideVars, redactVars,
          infoVars>>

\* what maybeLeaveGhost never touches
notLeaveVars == <<mxidLock, roomStore, matrixRooms, groupRooms, groupSyncEnabled,
                  roomCalls, userVars, uploadVars, deleteVars, overrideVars, redactVars,
          infoVars>>

\* ------------------------------------------------------------------ Lock
\* structures/lock.ts is not part of the available source; modelled from the
\* specification: set(key) registers the caller as holder, release(key)
\* clears it and wakes the waiters, wait(key) suspends while a holder is
\* registered.
LockHeld(lock, key) == lock[key] # NoHolder

LockSet(lock, key, caller) == [lock EXCEPT ![key] = caller]

LockRelease(lock, key) == [lock EXCEPT ![key] = NoHolder]

\* ------------------------------------------------------------- room store
GetByRemote(key) == {r \in roomStore : r.key = key}

RoomStoreSet(store, row) == {r \in store : r.mxid # row.mxid} \cup {row}

RoomOpSet(ops, mxid, user) == {o \in ops : o[1] # mxid} \cup {<<mxid, user>>}

NewData(mxid, key) == [mxid |-> mxid, key |-> key, name |-> "", groupId |-> NoGroup]

\* Util.ProcessProfileUpdate is not part of the available source; modelled
\* from the specification (4.3): only the fields that changed are returned.
\* The profile is reduced to the name.
ProcessProfileUpdate(old, name) ==
    IF old = NoRoom \/ old.name # name
    THEN [hasName |-> TRUE, name |-> name]
    ELSE [hasName |-> FALSE, name |-> ""]

\* ------------------------------------------------------------ call records
IdleCall ==
    [pc |-> "idle", op |-> "none", key |-> <<3, "chan1">>,
     dataKey |-> <<3, "chan1">>, doCreate |-> FALSE,
     name |-> "", groupId |-> NoGroup, client |-> BotUser, mxid |-> -1,
     room |-> NoRoom, doUpdate |-> FALSE, created |-> FALSE,
     removeGroup |-> NoGroup, addGroup |-> NoGroup, ret |-> NoRet]

\* release(key) wakes every call suspended in wait(key)
WakeWaiters(calls, key) ==
    [q \in DOMAIN calls |->
        IF calls[q].pc = "blocked" /\ calls[q].key = key
        THEN [calls[q] EXCEPT !.pc = "woken"]
        ELSE calls[q]]

\* the pc of a call that reaches `await this.mxidLock.wait(lockKey)`
WaitPc(key) == IF LockHeld(mxidLock, key) THEN "blocked" ELSE "woken"

\* calls are numbered in the order they are made
NextCall(p) == roomCalls[p].pc = "idle" /\ \A q \in 1..(p - 1) : roomCalls[q].pc # "idle"

\* a faulty variant of the deferred group update: one that does not look at
\* groupSyncEnabled
GroupPcIgnoresSetting(c) ==
    IF c.removeGroup # NoGroup THEN "removeGroup"
    ELSE IF c.addGroup # NoGroup THEN "addGroup"
    ELSE "done"

\* the code after the lock release: the deferred group update, or the return
GroupPc(c) ==
    IF groupSyncEnabled /\ c.removeGroup # NoGroup THEN "removeGroup"
    ELSE IF groupSyncEnabled /\ c.addGroup # NoGroup THEN "addGroup"
    ELSE "done"

\* a finished call keeps what it was asked and what it answered; its locals are gone
Finished(c, pc, ret) ==
    [IdleCall EXCEPT !.pc = pc, !.op = c.op, !.key = c.key, !.dataKey = c.key,
                     !.doCreate = c.doCreate, !.ret = ret]

Returned(c) == Finished(c, "done", [mxid |-> c.mxid, created |-> c.created])

AfterRelease(c) == IF GroupPc(c) = "done" THEN Returned(c) ELSE [c EXCEPT !.pc = GroupPc(c)]

\* `this.mxidLock.release(lockKey)` followed by the code up to the next await
GetMxidRelease(p, c) ==
    /\ mxidLock' = LockRelease(mxidLock, c.key)
    /\ roomCalls' = WakeWaiters([roomCalls EXCEPT ![p] = AfterRelease(c)], c.key)

\* ------------------------------------------------- RoomSyncroniser.getMxid
\* getMxid is called and reaches the wait on the lock
GetMxidCall(p, key, client, name, groupId, doCreate) ==
    /\ NextCall(p)
    /\ roomCalls' = [roomCalls EXCEPT ![p] =
          [IdleCall EXCEPT !.pc = WaitPc(key), !.op = "getMxid", !.key = key,
                           !.dataKey = key,
                           !.client = client, !.name = name, !.groupId = groupId,
                           !.doCreate = doCreate]]
    /\ UNCHANGED <<mxidLock, roomStore, roomOps, matrixRooms,
                   groupRooms, groupSyncEnabled>>
    /\ UNCHANGED notRoomVars

\* wait() returned: set the lock and call roomStore.getByRemote
GetMxidSet(p) ==
    /\ roomCalls[p].pc = "woken"
    /\ roomCalls[p].op = "getMxid"
    /\ mxidLock' = LockSet(mxidLock, roomCalls[p].key, p)
    /\ roomCalls' = [roomCalls EXCEPT ![p].pc = "getByRemote"]
    /\ UNCHANGED <<roomStore, roomOps, matrixRooms, groupRooms,
                   groupSyncEnabled>>
    /\ UNCHANGED notRoomVars

\* a faulty variant of the catch block: one that rethrows without releasing the lock
GetMxidCatchNoRelease(p) ==
    /\ mxidLock' = mxidLock
    /\ roomCalls' = [roomCalls EXCEPT ![p] = Finished(@, "thrown", NoRet)]

\* the catch block: release the lock and rethrow
GetMxidCatch(p) ==
    /\ mxidLock' = LockRelease(mxidLock, roomCalls[p].key)
    /\ roomCalls' = WakeWaiters([roomCalls EXCEPT ![p] = Finished(@, "thrown", NoRet)],
                                roomCalls[p].key)

\* a collaborator call awaited inside the try block rejects
GetMxidFail(p) ==
    /\ roomCalls[p].op = "getMxid"
    /\ roomCalls[p].pc \in {"getByRemote", "hook", "profileNew", "createRoom", "setRoomOp",
                            "getRoomOp", "profileOld", "sendName", "store",
                            "removeGroup", "addGroup"}
    /\ GetMxidCatch(p)
    /\ UNCHANGED <<roomStore, roomOps, matrixRooms, groupRooms,
                   groupSyncEnabled>>
    /\ UNCHANGED notRoomVars

\* a faulty variant of the not-created return: doCreate is ignored and the
\* creation branch is entered
GetMxidNotCreatedCreates(p) ==
    /\ roomCalls[p].pc = "getByRemote"
    /\ roomCalls[p].op = "getMxid"
    /\ GetByRemote(roomCalls[p].key) = {}
    /\ ~roomCalls[p].doCreate
    /\ roomCalls' = [roomCalls EXCEPT ![p].pc = "profileNew", ![p].doUpdate = TRUE]
    /\ UNCHANGED <<mxidLock, roomStore, roomOps, matrixRooms,
                   groupRooms, groupSyncEnabled>>
    /\ UNCHANGED notRoomVars

\* getByRemote found nothing and doCreate is false: release and return
GetMxidNotCreated(p) ==
    /\ roomCalls[p].pc = "getByRemote"
    /\ roomCalls[p].op = "getMxid"
    /\ GetByRemote(roomCalls[p].key) = {}
    /\ ~roomCalls[p].doCreate
    /\ mxidLock' = LockRelease(mxidLock, roomCalls[p].key)
    /\ roomCalls' = WakeWaiters(
          [roomCalls EXCEPT ![p] = Finished(@, "done", [mxid |-> -1, created |-> FALSE])],
          roomCalls[p].key)
    /\ UNCHANGED <<roomStore, roomOps, matrixRooms, groupRooms,
                   groupSyncEnabled>>
    /\ UNCHANGED notRoomVars

\* getByRemote found nothing and doCreate is true: enter the creation branch,
\* through the createRoom hook when one is configured
GetMxidStartCreate(p, hasHook) ==
    /\ roomCalls[p].pc = "getByRemote"
    /\ roomCalls[p].op = "getMxid"
    /\ GetByRemote(roomCalls[p].key) = {}
    /\ roomCalls[p].doCreate
    /\ roomCalls' = [roomCalls EXCEPT ![p].pc = IF hasHook THEN "hook" ELSE "profileNew",
                                      ![p].doUpdate = TRUE]
    /\ UNCHANGED <<mxidLock, roomStore, roomOps, matrixRooms,
                   groupRooms, groupSyncEnabled>>
    /\ UNCHANGED notRoomVars

\* a faulty variant of the hook step: whatever the hook returned replaces data
GetMxidHookAdoptsAny(p, newKey, newName) ==
    /\ roomCalls[p].pc = "hook"
    /\ roomCalls[p].op = "getMxid"
    /\ roomCalls' = [roomCalls EXCEPT
          ![p].pc = "profileNew", ![p].dataKey = newKey, ![p].name = newName]
    /\ UNCHANGED <<mxidLock, roomStore, roomOps, matrixRooms,
                   groupRooms, groupSyncEnabled>>
    /\ UNCHANGED notRoomVars

\* the createRoom hook returned newData: `data = newData` only when newData is
\* not null and keeps (puppetId, roomId)
GetMxidHook(p, newKey, newName) ==
    /\ roomCalls[p].pc = "hook"
    /\ roomCalls[p].op = "getMxid"
    /\ LET adopt == newKey # NullData /\ newKey = roomCalls[p].key IN
       roomCalls' = [roomCalls EXCEPT
          ![p].pc = "profileNew",
          ![p].dataKey = IF adopt THEN newKey ELSE @,
          ![p].name = IF adopt THEN newName ELSE @]
    /\ UNCHANGED <<mxidLock, roomStore, roomOps, matrixRooms,
                   groupRooms, groupSyncEnabled>>
    /\ UNCHANGED notRoomVars

\* ProcessProfileUpdate(null, data, ...) returned
GetMxidProfileNew(p) ==
    /\ roomCalls[p].pc = "profileNew"
    /\ roomCalls[p].op = "getMxid"
    /\ roomCalls' = [roomCalls EXCEPT ![p].pc = "createRoom"]
    /\ UNCHANGED <<mxidLock, roomStore, roomOps, matrixRooms,
                   groupRooms, groupSyncEnabled>>
    /\ UNCHANGED notRoomVars

\* client.createRoom returned the id of a new target-side room
GetMxidCreateRoom(p) ==
    /\ roomCalls[p].pc = "createRoom"
    /\ roomCalls[p].op = "getMxid"
    /\ LET mxid == Cardinality(matrixRooms) + 1 IN
         /\ matrixRooms' = matrixRooms \cup
               {[mxid |-> mxid, key |-> roomCalls[p].dataKey,
                 creator |-> roomCalls[p].client]}
         /\ roomCalls' = [roomCalls EXCEPT ![p].pc = "setRoomOp", ![p].mxid = mxid]
    /\ UNCHANGED <<mxidLock, roomStore, roomOps, groupRooms,
                   groupSyncEnabled>>
    /\ UNCHANGED notRoomVars

\* roomStore.setRoomOp(mxid, client.getUserId()) returned; the new entry is
\* built from newData and the profile update
GetMxidSetRoomOp(p) ==
    /\ roomCalls[p].pc = "setRoomOp"
    /\ roomCalls[p].op = "getMxid"
    /\ roomOps' = RoomOpSet(roomOps, roomCalls[p].mxid, roomCalls[p].client)
    /\ LET c == roomCalls[p]
           upd == ProcessProfileUpdate(NoRoom, c.name)
           base == NewData(c.mxid, c.dataKey)
           room == [base EXCEPT !.name = IF upd.hasName THEN upd.name ELSE @,
                                !.groupId = c.groupId]
       IN roomCalls' = [roomCalls EXCEPT ![p].pc = "store", ![p].room = room,
                                         ![p].addGroup = c.groupId,
                                         ![p].created = TRUE]
    /\ UNCHANGED <<mxidLock, roomStore, matrixRooms, groupRooms,
                   groupSyncEnabled>>
    /\ UNCHANGED notRoomVars

\* a faulty variant of the tail: the entry is stored whether or not anything changed
GetMxidReconcileTailAlwaysStore(p, c) ==
    /\ roomCalls' = [roomCalls EXCEPT ![p] = [c EXCEPT !.pc = "store"]]
    /\ UNCHANGED mxidLock

\* the group id comparison, then `if (doUpdate)` of the existing-mapping branch
GetMxidReconcileTail(p, c) ==
    LET changed == c.groupId # NoGroup /\ c.groupId # c.room.groupId
        c2 == IF changed
              THEN [c EXCEPT !.doUpdate = TRUE, !.removeGroup = c.room.groupId,
                             !.addGroup = c.groupId, !.room.groupId = c.groupId]
              ELSE c
    IN IF c2.doUpdate
       THEN /\ roomCalls' = [roomCalls EXCEPT ![p] = [c2 EXCEPT !.pc = "store"]]
            /\ UNCHANGED mxidLock
       ELSE GetMxidRelease(p, c2)

\* getByRemote returned a stored mapping: call getRoomOp
GetMxidFound(p, room) ==
    /\ roomCalls[p].pc = "getByRemote"
    /\ roomCalls[p].op = "getMxid"
    /\ room \in GetByRemote(roomCalls[p].key)
    /\ roomCalls' = [roomCalls EXCEPT ![p].pc = "getRoomOp", ![p].room = room,
                                      ![p].mxid = room.mxid]
    /\ UNCHANGED <<mxidLock, roomStore, roomOps, matrixRooms,
                   groupRooms, groupSyncEnabled>>
    /\ UNCHANGED notRoomVars

\* getRoomOp returned the operator client, or null (the passed client is kept)
GetMxidGetRoomOp(p) ==
    /\ roomCalls[p].pc = "getRoomOp"
    /\ roomCalls[p].op = "getMxid"
    /\ roomCalls' = [roomCalls EXCEPT
          ![p].pc = "profileOld",
          ![p].client = IF \E o \in roomOps : o[1] = roomCalls[p].mxid
                        THEN (CHOOSE o \in roomOps : o[1] = roomCalls[p].mxid)[2]
                        ELSE @]
    /\ UNCHANGED <<mxidLock, roomStore, roomOps, matrixRooms,
                   groupRooms, groupSyncEnabled>>
    /\ UNCHANGED notRoomVars

\* a faulty variant of the merge: the merged entry is stored before the name
\* is sent
GetMxidProfileOldStoresFirst(p) ==
    /\ roomCalls[p].pc = "profileOld"
    /\ roomCalls[p].op = "getMxid"
    /\ LET c == roomCalls[p]
           upd == ProcessProfileUpdate(c.room, c.name)
       IN IF upd.hasName
          THEN /\ roomCalls' = [roomCalls EXCEPT ![p].pc = "sendName",
                                                 ![p].doUpdate = TRUE,
                                                 ![p].room.name = upd.name]
               /\ roomStore' = RoomStoreSet(roomStore, [c.room EXCEPT !.name = upd.name])
               /\ UNCHANGED mxidLock
          ELSE /\ GetMxidReconcileTail(p, c)
               /\ UNCHANGED roomStore
    /\ UNCHANGED <<roomOps, matrixRooms, groupRooms, groupSyncEnabled>>
    /\ UNCHANGED notRoomVars

\* ProcessProfileUpdate(room, data, ...) returned: merge it into the entry and
\* send the name when it changed
GetMxidProfileOld(p) ==
    /\ roomCalls[p].pc = "profileOld"
    /\ roomCalls[p].op = "getMxid"
    /\ LET c == roomCalls[p]
           upd == ProcessProfileUpdate(c.room, c.name)
       IN IF upd.hasName
          THEN /\ roomCalls' = [roomCalls EXCEPT ![p].pc = "sendName",
                                                 ![p].doUpdate = TRUE,
                                                 ![p].room.name = upd.name]
               /\ UNCHANGED mxidLock
          ELSE GetMxidReconcileTail(p, c)
    /\ UNCHANGED <<roomStore, roomOps, matrixRooms, groupRooms,
                   groupSyncEnabled>>
    /\ UNCHANGED notRoomVars

\* the m.room.name state write returned
GetMxidSendName(p) ==
    /\ roomCalls[p].pc = "sendName"
    /\ roomCalls[p].op = "getMxid"
    /\ GetMxidReconcileTail(p, roomCalls[p])
    /\ UNCHANGED <<roomStore, roomOps, matrixRooms, groupRooms,
                   groupSyncEnabled>>
    /\ UNCHANGED notRoomVars

\* roomStore.set(room) returned: release the lock
GetMxidStore(p) ==
    /\ roomCalls[p].pc = "store"
    /\ roomCalls[p].op = "getMxid"
    /\ roomStore' = RoomStoreSet(roomStore, roomCalls[p].room)
    /\ GetMxidRelease(p, roomCalls[p])
    /\ UNCHANGED <<roomOps, matrixRooms, groupRooms, groupSyncEnabled>>
    /\ UNCHANGED notRoomVars

\* groupSync.removeRoomFromGroup returned
GetMxidRemoveGroup(p) ==
    /\ roomCalls[p].pc = "removeGroup"
    /\ roomCalls[p].op = "getMxid"
    /\ groupRooms' = groupRooms \ {<<roomCalls[p].removeGroup, roomCalls[p].key>>}
    /\ roomCalls' = [roomCalls EXCEPT ![p] =
          IF roomCalls[p].addGroup # NoGroup THEN [@ EXCEPT !.pc = "addGroup"]
          ELSE Returned(@)]
    /\ UNCHANGED <<mxidLock, roomStore, roomOps, matrixRooms,
                   groupSyncEnabled>>
    /\ UNCHANGED notRoomVars

\* groupSync.addRoomToGroup returned
GetMxidAddGroup(p) ==
    /\ roomCalls[p].pc = "addGroup"
    /\ roomCalls[p].op = "getMxid"
    /\ groupRooms' = groupRooms \cup {<<roomCalls[p].addGroup, roomCalls[p].key>>}
    /\ roomCalls' = [roomCalls EXCEPT ![p] = Returned(@)]
    /\ UNCHANGED <<mxidLock, roomStore, roomOps, matrixRooms,
                   groupSyncEnabled>>
    /\ UNCHANGED notRoomVars

\* -------------------------------------------------- RoomSyncroniser.insert
InsertCall(p, key) ==
    /\ NextCall(p)
    /\ roomCalls' = [roomCalls EXCEPT ![p] =
          [IdleCall EXCEPT !.pc = WaitPc(key), !.op = "insert", !.key = key,
                           !.dataKey = key,
                           !.mxid = ExternalMxid]]
    /\ UNCHANGED <<mxidLock, roomStore, roomOps, matrixRooms,
                   groupRooms, groupSyncEnabled>>
    /\ UNCHANGED notRoomVars

\* wait() returned: set the lock and call roomStore.set(entry)
InsertSet(p) ==
    /\ roomCalls[p].pc = "woken"
    /\ roomCalls[p].op = "insert"
    /\ mxidLock' = LockSet(mxidLock, roomCalls[p].key, p)
    /\ roomCalls' = [roomCalls EXCEPT ![p].pc = "store"]
    /\ UNCHANGED <<roomStore, roomOps, matrixRooms, groupRooms,
                   groupSyncEnabled>>
    /\ UNCHANGED notRoomVars

\* roomStore.set(entry) returned: release the lock
InsertStore(p) ==
    /\ roomCalls[p].pc = "store"
    /\ roomCalls[p].op = "insert"
    /\ roomStore' = RoomStoreSet(roomStore, NewData(roomCalls[p].mxid, roomCalls[p].key))
    /\ mxidLock' = LockRelease(mxidLock, roomCalls[p].key)
    /\ roomCalls' = WakeWaiters([roomCalls EXCEPT ![p] = Finished(@, "done", NoRet)],
                                roomCalls[p].key)
    /\ UNCHANGED <<roomOps, matrixRooms, groupRooms, groupSyncEnabled>>
    /\ UNCHANGED notRoomVars

\* roomStore.set(entry) rejected: insert has no error handler
InsertFail(p) ==
    /\ roomCalls[p].pc = "store"
    /\ roomCalls[p].op = "insert"
    /\ roomCalls' = [roomCalls EXCEPT ![p] = Finished(@, "thrown", NoRet)]
    /\ UNCHANGED <<mxidLock, roomStore, roomOps, matrixRooms,
                   groupRooms, groupSyncEnabled>>
    /\ UNCHANGED notRoomVars

\* ------------------------------------------------ RoomSyncroniser.maybeGet
MaybeGetCall(p, key) ==
    /\ NextCall(p)
    /\ roomCalls' = [roomCalls EXCEPT ![p] =
          [IdleCall EXCEPT !.pc = WaitPc(key), !.op = "maybeGet", !.key = key,
                           !.dataKey = key]]
    /\ UNCHANGED <<mxidLock, roomStore, roomOps, matrixRooms,
                   groupRooms, groupSyncEnabled>>
    /\ UNCHANGED notRoomVars

\* wait() returned and roomStore.getByRemote returned the entry or null
MaybeGetRead(p, room) ==
    /\ roomCalls[p].pc = "woken"
    /\ roomCalls[p].op = "maybeGet"
    /\ \/ room \in GetByRemote(roomCalls[p].key)
       \/ room = NoRoom /\ GetByRemote(roomCalls[p].key) = {}
    /\ roomCalls' = [roomCalls EXCEPT ![p] =
          Finished(@, "done", [mxid |-> room.mxid, created |-> FALSE])]
    /\ UNCHANGED <<mxidLock, roomStore, roomOps, matrixRooms,
                   groupRooms, groupSyncEnabled>>
    /\ UNCHANGED notRoomVars

\* ------------------------------------------------------ room specification
RoomNext ==
    \/ \E p \in RoomCalls, key \in RoomKeys, client \in Clients, data \in RoomData,
          doCreate \in BOOLEAN :
            GetMxidCall(p, key, client, data[1], data[2], doCreate)
    \/ \E p \in RoomCalls : GetMxidSet(p)
    \/ \E p \in RoomCalls : GetMxidFail(p)
    \/ \E p \in RoomCalls : GetMxidNotCreated(p)
    \/ \E p \in RoomCalls, hasHook \in BOOLEAN : GetMxidStartCreate(p, hasHook)
    \/ \E p \in RoomCalls, newKey \in HookKeys, newName \in HookNames : GetMxidHook(p, newKey, newName)
    \/ \E p \in RoomCalls : GetMxidProfileNew(p)
    \/ \E p \in RoomCalls : GetMxidCreateRoom(p)
    \/ \E p \in RoomCalls : GetMxidSetRoomOp(p)
    \/ \E p \in RoomCalls, room \in roomStore : GetMxidFound(p, room)
    \/ \E p \in RoomCalls : GetMxidGetRoomOp(p)
    \/ \E p \in RoomCalls : GetMxidProfileOld(p)
    \/ \E p \in RoomCalls : GetMxidSendName(p)
    \/ \E p \in RoomCalls : GetMxidStore(p)
    \/ \E p \in RoomCalls : GetMxidRemoveGroup(p)
    \/ \E p \in RoomCalls : GetMxidAddGroup(p)
    \/ \E p \in RoomCalls, key \in RoomKeys : InsertCall(p, key)
    \/ \E p \in RoomCalls : InsertSet(p)
    \/ \E p \in RoomCalls : InsertStore(p)
    \/ \E p \in RoomCalls : InsertFail(p)
    \/ \E p \in RoomCalls, key \in RoomKeys : MaybeGetCall(p, key)
    \/ \E p \in RoomCalls, room \in roomStore \cup {NoRoom} : MaybeGetRead(p, room)


\* ------------------------------------------------ UserSyncroniser.getClient
IdleUserCall ==
    [pc |-> "idle", key |-> <<3, "u1">>, dataKey |-> <<3, "u1">>, waited |-> FALSE,
     name |-> "", user |-> NoUser,
     oldProfile |-> NoUser, doUpdate |-> FALSE, firstSight |-> FALSE,
     ret |-> "none", bg |-> "none"]

NextUserCall(p) ==
    userCalls[p].pc = "idle" /\ \A q \in 1..(p - 1) : userCalls[q].pc # "idle"

WakeUserWaiters(calls, key) ==
    [q \in DOMAIN calls |->
        IF calls[q].pc = "blocked" /\ calls[q].key = key
        THEN [calls[q] EXCEPT !.pc = "woken"]
        ELSE calls[q]]

\* a returned or thrown getClient call: its locals are gone, the profile write
\* it started (promiseList) may still be in flight
FinishedUser(c, pc, ret, bg) ==
    [IdleUserCall EXCEPT !.pc = pc, !.key = c.key, !.dataKey = c.dataKey,
                         !.firstSight = c.firstSight,
                         !.ret = ret, !.bg = bg,
                         !.name = IF bg = "pending" THEN c.user.name ELSE ""]

\* getClient is called: provisioner.get(puppetId)
GetClientCall(p, key, name) ==
    /\ NextUserCall(p)
    /\ userCalls' = [userCalls EXCEPT ![p] =
          [IdleUserCall EXCEPT !.pc = "provisioner", !.key = key, !.dataKey = key,
                               !.name = name]]
    /\ UNCHANGED <<clientLock, userStore, ghostNames>>
    /\ UNCHANGED notUserVars

\* a faulty variant of the double-puppet return: a ghost mapping is written
\* for the puppet's own account
GetClientPuppetWritesGhost(p) ==
    /\ userCalls[p].pc = "provisioner"
    /\ userCalls[p].key[2] = PuppetUserId
    /\ userCalls' = [userCalls EXCEPT ![p] = FinishedUser(@, "done", "puppet", "none")]
    /\ userStore' = [userStore EXCEPT ![userCalls[p].key] = [name |-> userCalls[p].name]]
    /\ UNCHANGED <<clientLock, ghostNames>>
    /\ UNCHANGED notUserVars

\* the remote user is the puppet's own account and its token gives a client:
\* return that client
GetClientPuppet(p) ==
    /\ userCalls[p].pc = "provisioner"
    /\ userCalls[p].key[2] = PuppetUserId
    /\ userCalls' = [userCalls EXCEPT ![p] = FinishedUser(@, "done", "puppet", "none")]
    /\ UNCHANGED <<clientLock, userStore, ghostNames>>
    /\ UNCHANGED notUserVars

\* not the puppet's own account, or no usable puppet client: reach the wait on
\* the ghost lock
GetClientWait(p) ==
    /\ userCalls[p].pc = "provisioner"
    /\ userCalls' = [userCalls EXCEPT
          ![p].pc = IF LockHeld(clientLock, userCalls[p].key) THEN "blocked" ELSE "woken",
          ![p].waited = LockHeld(clientLock, userCalls[p].key)]
    /\ UNCHANGED <<clientLock, userStore, ghostNames>>
    /\ UNCHANGED notUserVars

\* wait() returned: set the lock and call userStore.get
GetClientSet(p) ==
    /\ userCalls[p].pc = "woken"
    /\ clientLock' = LockSet(clientLock, userCalls[p].key, p)
    /\ userCalls' = [userCalls EXCEPT ![p].pc = "userStoreGet"]
    /\ UNCHANGED <<userStore, ghostNames>>
    /\ UNCHANGED notUserVars

\* a collaborator call awaited inside the try block rejects: the catch block
\* releases the lock and rethrows
GetClientFail(p) ==
    /\ userCalls[p].pc \in {"userStoreGet", "hook", "ensureRegistered", "profile", "store"}
    /\ clientLock' = LockRelease(clientLock, userCalls[p].key)
    /\ userCalls' = WakeUserWaiters(
          [userCalls EXCEPT ![p] = FinishedUser(@, "thrown", "none", @.bg)],
          userCalls[p].key)
    /\ UNCHANGED <<userStore, ghostNames>>
    /\ UNCHANGED notUserVars

\* userStore.get found the ghost mapping
GetClientFound(p) ==
    /\ userCalls[p].pc = "userStoreGet"
    /\ userStore[userCalls[p].key] # NoUser
    /\ userCalls' = [userCalls EXCEPT ![p].pc = "ensureRegistered",
                                      ![p].user = userStore[userCalls[p].key],
                                      ![p].oldProfile = userStore[userCalls[p].key]]
    /\ UNCHANGED <<clientLock, userStore, ghostNames>>
    /\ UNCHANGED notUserVars

\* userStore.get found nothing: first sight of the user, through the
\* createUser hook when one is configured
GetClientFirstSight(p, hasHook) ==
    /\ userCalls[p].pc = "userStoreGet"
    /\ userStore[userCalls[p].key] = NoUser
    /\ userCalls' = [userCalls EXCEPT ![p].pc = IF hasHook THEN "hook" ELSE "ensureRegistered",
                                      ![p].doUpdate = TRUE,
                                      ![p].firstSight = TRUE,
                                      ![p].user = [name |-> ""]]
    /\ UNCHANGED <<clientLock, userStore, ghostNames>>
    /\ UNCHANGED notUserVars

\* the createUser hook returned newData: `data = newData` only when newData is
\* not null and keeps (puppetId, userId)
GetClientHook(p, newKey, newName) ==
    /\ userCalls[p].pc = "hook"
    /\ LET adopt == newKey # NullData /\ newKey = userCalls[p].key IN
       userCalls' = [userCalls EXCEPT
          ![p].pc = "ensureRegistered",
          ![p].dataKey = IF adopt THEN newKey ELSE @,
          ![p].name = IF adopt THEN newName ELSE @]
    /\ UNCHANGED <<clientLock, userStore, ghostNames>>
    /\ UNCHANGED notUserVars

\* intent.ensureRegistered returned
GetClientEnsureRegistered(p) ==
    /\ userCalls[p].pc = "ensureRegistered"
    /\ userCalls' = [userCalls EXCEPT ![p].pc = "profile"]
    /\ UNCHANGED <<clientLock, userStore, ghostNames>>
    /\ UNCHANGED notUserVars

\* release, start the background continuation and return the client
GetClientRelease(p, c, bg) ==
    /\ clientLock' = LockRelease(clientLock, c.key)
    /\ userCalls' = WakeUserWaiters(
          [userCalls EXCEPT ![p] = FinishedUser(c, "done", "ghost", bg)], c.key)

\* ProcessProfileUpdate returned: a changed name starts client.setDisplayName
\* (not awaited); then `if (doUpdate)`
GetClientProfile(p) ==
    /\ userCalls[p].pc = "profile"
    /\ LET c == userCalls[p]
           upd == ProcessProfileUpdate(c.oldProfile, c.name)
           c2 == IF upd.hasName
                 THEN [c EXCEPT !.user.name = upd.name, !.doUpdate = TRUE, !.bg = "pending"]
                 ELSE c
       IN IF c2.doUpdate
          THEN /\ userCalls' = [userCalls EXCEPT ![p] = [c2 EXCEPT !.pc = "store"]]
               /\ UNCHANGED clientLock
          ELSE GetClientRelease(p, c2, c2.bg)
    /\ UNCHANGED <<userStore, ghostNames>>
    /\ UNCHANGED notUserVars

\* userStore.set(user) returned: release the lock and return the client
GetClientStore(p) ==
    /\ userCalls[p].pc = "store"
    /\ userStore' = [userStore EXCEPT ![userCalls[p].dataKey] = userCalls[p].user]
    /\ GetClientRelease(p, userCalls[p], userCalls[p].bg)
    /\ UNCHANGED ghostNames
    /\ UNCHANGED notUserVars

\* the setDisplayName call started by getClient takes effect on the target side
GetClientSetDisplayName(p) ==
    /\ userCalls[p].bg = "pending"
    /\ ghostNames' = [ghostNames EXCEPT ![userCalls[p].dataKey] = userCalls[p].name]
    /\ userCalls' = [userCalls EXCEPT ![p].bg = "settled", ![p].name = ""]
    /\ UNCHANGED <<clientLock, userStore>>
    /\ UNCHANGED notUserVars

\* the setDisplayName call rejects: logged by the background continuation
GetClientSetDisplayNameFail(p) ==
    /\ userCalls[p].bg = "pending"
    /\ userCalls' = [userCalls EXCEPT ![p].bg = "settled", ![p].name = ""]
    /\ UNCHANGED <<clientLock, userStore, ghostNames>>
    /\ UNCHANGED notUserVars

\* ---------------------------------------------- PuppetBridge.uploadContent
\* Util.DownloadFile: both locators serve the same bytes
DownloadFile(locator) == "bytes1"

\* Util.HashBuffer: the content digest of a buffer
HashBuffer(buffer) == IF buffer = "bytes1" THEN "sha512:1" ELSE "sha512:0"

Fingerprints == Locators \cup {HashBuffer(b) : b \in Buffers}

IdleUploadCall ==
    [pc |-> "idle", thing |-> "", buffer |-> "", waitKey |-> "", locks |-> {},
     mxcUrl |-> NoMxc, uploads |-> 0, writes |-> 0, ret |-> NoMxc]

NextUploadCall(p) ==
    uploadCalls[p].pc = "idle" /\ \A q \in 1..(p - 1) : uploadCalls[q].pc # "idle"

WakeUploadWaiters(calls, keys) ==
    [q \in DOMAIN calls |->
        IF calls[q].pc = "blocked" /\ calls[q].waitKey \in keys
        THEN [calls[q] EXCEPT !.pc = "woken"]
        ELSE calls[q]]

ReleaseAll(lock, keys) == [k \in DOMAIN lock |-> IF k \in keys THEN NoHolder ELSE lock[k]]

\* a returned or thrown uploadContent call; `locks` is what it had pushed and
\* what it did is kept for the record
FinishedUpload(c, pc, ret) ==
    [IdleUploadCall EXCEPT !.pc = pc, !.thing = c.thing, !.ret = ret,
                           !.uploads = c.uploads, !.writes = c.writes]

\* the call reaches `await this.mxcLookupLock.wait(key)`
UploadWait(c, key) ==
    [c EXCEPT !.waitKey = key,
              !.pc = IF LockHeld(mxcLookupLock, key) THEN "blocked" ELSE "woken"]

\* uploadContent is called: wait on the locator for a string, on the digest
\* for a buffer
UploadCall(p, thing) ==
    /\ NextUploadCall(p)
    /\ uploadCalls' = [uploadCalls EXCEPT ![p] =
          IF thing \in Locators
          THEN UploadWait([IdleUploadCall EXCEPT !.thing = thing], thing)
          ELSE UploadWait([IdleUploadCall EXCEPT !.thing = thing, !.buffer = thing],
                          HashBuffer(thing))]
    /\ UNCHANGED <<mxcLookupLock, fileStore, uploadCount>>
    /\ UNCHANGED notUploadVars

\* wait() returned: push the key, set the lock and call store.getFileMxc
UploadSet(p) ==
    /\ uploadCalls[p].pc = "woken"
    /\ mxcLookupLock' = LockSet(mxcLookupLock, uploadCalls[p].waitKey, p)
    /\ uploadCalls' = [uploadCalls EXCEPT
          ![p].locks = @ \cup {uploadCalls[p].waitKey},
          ![p].pc = IF uploadCalls[p].waitKey \in Locators THEN "locatorLookup"
                    ELSE "digestLookup"]
    /\ UNCHANGED <<fileStore, uploadCount>>
    /\ UNCHANGED notUploadVars

\* getFileMxc(thing) or getFileMxc(hash) returned a stored reference: return it
UploadHit(p) ==
    /\ uploadCalls[p].pc \in {"locatorLookup", "digestLookup"}
    /\ fileStore[uploadCalls[p].waitKey] # NoMxc
    /\ uploadCalls' = [uploadCalls EXCEPT ![p] =
          FinishedUpload(@, "done", fileStore[uploadCalls[p].waitKey])]
    /\ UNCHANGED <<mxcLookupLock, fileStore, uploadCount>>
    /\ UNCHANGED notUploadVars

\* getFileMxc(thing) returned nothing: download the file
UploadLocatorMiss(p) ==
    /\ uploadCalls[p].pc = "locatorLookup"
    /\ fileStore[uploadCalls[p].waitKey] = NoMxc
    /\ uploadCalls' = [uploadCalls EXCEPT ![p].pc = "download"]
    /\ UNCHANGED <<mxcLookupLock, fileStore, uploadCount>>
    /\ UNCHANGED notUploadVars

\* Util.DownloadFile returned the buffer: hash it and wait on the digest
UploadDownload(p) ==
    /\ uploadCalls[p].pc = "download"
    /\ LET buffer == DownloadFile(uploadCalls[p].thing) IN
         uploadCalls' = [uploadCalls EXCEPT ![p] =
             UploadWait([@ EXCEPT !.buffer = buffer], HashBuffer(buffer))]
    /\ UNCHANGED <<mxcLookupLock, fileStore, uploadCount>>
    /\ UNCHANGED notUploadVars

\* a faulty variant of the digest miss: the lookup result is ignored and the buffer uploaded anyway
UploadDigestMissAlways(p) ==
    /\ uploadCalls[p].pc = "digestLookup"
    /\ uploadCalls' = [uploadCalls EXCEPT ![p].pc = "upload"]
    /\ UNCHANGED <<mxcLookupLock, fileStore, uploadCount>>
    /\ UNCHANGED notUploadVars

\* getFileMxc(hash) returned nothing: upload the buffer
UploadDigestMiss(p) ==
    /\ uploadCalls[p].pc = "digestLookup"
    /\ fileStore[uploadCalls[p].waitKey] = NoMxc
    /\ uploadCalls' = [uploadCalls EXCEPT ![p].pc = "upload"]
    /\ UNCHANGED <<mxcLookupLock, fileStore, uploadCount>>
    /\ UNCHANGED notUploadVars

\* client.uploadContent returned a new reference
UploadTransport(p) ==
    /\ uploadCalls[p].pc = "upload"
    /\ uploadCount' = uploadCount + 1
    /\ uploadCalls' = [uploadCalls EXCEPT
          ![p].mxcUrl = uploadCount + 1,
          ![p].uploads = @ + 1,
          ![p].pc = IF uploadCalls[p].thing \in Locators THEN "storeLocator"
                    ELSE "storeDigest"]
    /\ UNCHANGED <<mxcLookupLock, fileStore>>
    /\ UNCHANGED notUploadVars

\* a faulty variant of the first store write: the locator is not written
UploadStoreLocatorSkips(p) ==
    /\ uploadCalls[p].pc = "storeLocator"
    /\ uploadCalls' = [uploadCalls EXCEPT ![p].pc = "storeDigest", ![p].writes = @ + 1]
    /\ UNCHANGED <<mxcLookupLock, fileStore, uploadCount>>
    /\ UNCHANGED notUploadVars

\* setFileMxc(thing, mxcUrl) returned
UploadStoreLocator(p) ==
    /\ uploadCalls[p].pc = "storeLocator"
    /\ fileStore' = [fileStore EXCEPT ![uploadCalls[p].thing] = uploadCalls[p].mxcUrl]
    /\ uploadCalls' = [uploadCalls EXCEPT ![p].pc = "storeDigest", ![p].writes = @ + 1]
    /\ UNCHANGED <<mxcLookupLock, uploadCount>>
    /\ UNCHANGED notUploadVars

\* setFileMxc(buffer, mxcUrl) returned: release all the locks and return
UploadStoreDigest(p) ==
    /\ uploadCalls[p].pc = "storeDigest"
    /\ fileStore' = [fileStore EXCEPT ![HashBuffer(uploadCalls[p].buffer)] =
                                          uploadCalls[p].mxcUrl]
    /\ mxcLookupLock' = ReleaseAll(mxcLookupLock, uploadCalls[p].locks)
    /\ uploadCalls' = WakeUploadWaiters(
          [uploadCalls EXCEPT ![p] =
              FinishedUpload([@ EXCEPT !.writes = @ + 1], "done", uploadCalls[p].mxcUrl)],
          uploadCalls[p].locks)
    /\ UNCHANGED uploadCount
    /\ UNCHANGED notUploadVars

\* a collaborator call awaited inside the try block rejects: the catch block
\* releases all the locks and rethrows
UploadFail(p) ==
    /\ uploadCalls[p].pc \in {"locatorLookup", "download", "digestLookup", "upload",
                              "storeLocator", "storeDigest"}
    /\ mxcLookupLock' = ReleaseAll(mxcLookupLock, uploadCalls[p].locks)
    /\ uploadCalls' = WakeUploadWaiters(
          [uploadCalls EXCEPT ![p] = FinishedUpload(@, "thrown", NoMxc)],
          uploadCalls[p].locks)
    /\ UNCHANGED <<fileStore, uploadCount>>
    /\ UNCHANGED notUploadVars

\* a faulty variant of the timeout: the timer fires without releasing the key
MxcLockTimeoutKeepsHolder(key) ==
    /\ LockHeld(mxcLookupLock, key)
    /\ UNCHANGED <<mxcLookupLock, uploadCalls, fileStore, uploadCount>>
    /\ UNCHANGED notUploadVars

\* the lock's safety timeout releases a registered holder
MxcLockTimeout(key) ==
    /\ LockHeld(mxcLookupLock, key)
    /\ mxcLookupLock' = LockRelease(mxcLookupLock, key)
    /\ uploadCalls' = WakeUploadWaiters(uploadCalls, {key})
    /\ UNCHANGED <<fileStore, uploadCount>>
    /\ UNCHANGED notUploadVars

\* ----------------------------------------- RoomSyncroniser.maybeLeaveGhost
IdleLeaveCall ==
    [pc |-> "idle", ghost |-> NoUserId, ghosts |-> {}, oldOp |-> NoUserId,
     newOp |-> NoUserId, powerLevels |-> {}, log |-> <<>>]

NextLeaveCall(p) ==
    leaveCalls[p].pc = "idle" /\ \A q \in 1..(p - 1) : leaveCalls[q].pc # "idle"

GhostsInRoom(mxid) == {g \in Ghosts : <<mxid, g>> \in ghostsInRoom}

\* roomStore.getRoomOp(mxid): the recorded operator, or nothing
GetRoomOp(mxid) ==
    IF \E o \in roomOps : o[1] = mxid
    THEN (CHOOSE o \in roomOps : o[1] = mxid)[2]
    ELSE NoUserId

\* a returned or thrown maybeLeaveGhost call; the log of what it did is kept
FinishedLeave(c, pc) ==
    [IdleLeaveCall EXCEPT !.pc = pc, !.ghost = c.ghost, !.oldOp = c.oldOp,
                          !.newOp = c.newOp, !.log = c.log]

\* maybeLeaveGhost(roomMxid, userMxid) is called: puppetStore.getGhostsInRoom
LeaveCall(p, ghost) ==
    /\ NextLeaveCall(p)
    /\ leaveCalls' = [leaveCalls EXCEPT ![p] =
          [IdleLeaveCall EXCEPT !.pc = "getGhosts", !.ghost = ghost]]
    /\ UNCHANGED <<roomOps, ghostsInRoom, joined, powerUsers>>
    /\ UNCHANGED notLeaveVars

\* getGhostsInRoom returned: nothing to do when the ghost is not in the room or
\* is the only one; otherwise roomStore.getRoomOp is called
LeaveGetGhosts(p) ==
    /\ leaveCalls[p].pc = "getGhosts"
    /\ LET ghosts == GhostsInRoom(LeaveRoom)
           c == leaveCalls[p]
       IN leaveCalls' = [leaveCalls EXCEPT ![p] =
             IF c.ghost \notin ghosts \/ Cardinality(ghosts) = 1
             THEN FinishedLeave(c, "done")
             ELSE [c EXCEPT !.pc = "getRoomOp", !.ghosts = ghosts]]
    /\ UNCHANGED <<roomOps, ghostsInRoom, joined, powerUsers>>
    /\ UNCHANGED notLeaveVars

\* getRoomOp returned an operator other than the leaving ghost: leave at once
LeaveNotOp(p) ==
    /\ leaveCalls[p].pc = "getRoomOp"
    /\ GetRoomOp(LeaveRoom) # leaveCalls[p].ghost
    /\ leaveCalls' = [leaveCalls EXCEPT ![p].pc = "leaveRoom",
                                        ![p].oldOp = GetRoomOp(LeaveRoom)]
    /\ UNCHANGED <<roomOps, ghostsInRoom, joined, powerUsers>>
    /\ UNCHANGED notLeaveVars

\* a faulty variant of the hand-off: the operator ghost leaves without handing its power on
LeaveIsOpNoTransfer(p, newOp) ==
    /\ leaveCalls[p].pc = "getRoomOp"
    /\ GetRoomOp(LeaveRoom) = leaveCalls[p].ghost
    /\ newOp \in leaveCalls[p].ghosts \ {leaveCalls[p].ghost}
    /\ leaveCalls' = [leaveCalls EXCEPT ![p].pc = "leaveRoom",
                                        ![p].oldOp = GetRoomOp(LeaveRoom),
                                        ![p].newOp = newOp]
    /\ UNCHANGED <<roomOps, ghostsInRoom, joined, powerUsers>>
    /\ UNCHANGED notLeaveVars

\* getRoomOp returned the leaving ghost: pick another ghost of the list as the
\* new operator and read the power levels
LeaveIsOp(p, newOp) ==
    /\ leaveCalls[p].pc = "getRoomOp"
    /\ GetRoomOp(LeaveRoom) = leaveCalls[p].ghost
    /\ newOp \in leaveCalls[p].ghosts \ {leaveCalls[p].ghost}
    /\ leaveCalls' = [leaveCalls EXCEPT ![p].pc = "getPowerLevels",
                                        ![p].oldOp = GetRoomOp(LeaveRoom),
                                        ![p].newOp = newOp]
    /\ UNCHANGED <<roomOps, ghostsInRoom, joined, powerUsers>>
    /\ UNCHANGED notLeaveVars

\* getRoomStateEvent(m.room.power_levels) returned
LeaveGetPowerLevels(p) ==
    /\ leaveCalls[p].pc = "getPowerLevels"
    /\ leaveCalls' = [leaveCalls EXCEPT
          ![p].pc = "sendPowerLevels",
          ![p].powerLevels = {u \in Ghosts \cup {BotUser} : <<LeaveRoom, u>> \in powerUsers}]
    /\ UNCHANGED <<roomOps, ghostsInRoom, joined, powerUsers>>
    /\ UNCHANGED notLeaveVars

\* sendStateEvent(m.room.power_levels) returned: the content that was read,
\* with the new operator at the old operator's level, is now the room's
LeaveSendPowerLevels(p) ==
    /\ leaveCalls[p].pc = "sendPowerLevels"
    /\ LET c == leaveCalls[p]
           users == IF c.oldOp \in c.powerLevels THEN c.powerLevels \cup {c.newOp}
                    ELSE c.powerLevels \ {c.newOp}
       IN powerUsers' = {x \in powerUsers : x[1] # LeaveRoom}
                            \cup {<<LeaveRoom, u>> : u \in users}
    /\ leaveCalls' = [leaveCalls EXCEPT ![p].pc = "setRoomOp",
                                        ![p].log = Append(@, "sendPowerLevels")]
    /\ UNCHANGED <<roomOps, ghostsInRoom, joined>>
    /\ UNCHANGED notLeaveVars

\* roomStore.setRoomOp(roomMxid, newOp) returned
LeaveSetRoomOp(p) ==
    /\ leaveCalls[p].pc = "setRoomOp"
    /\ roomOps' = RoomOpSet(roomOps, LeaveRoom, leaveCalls[p].newOp)
    /\ leaveCalls' = [leaveCalls EXCEPT ![p].pc = "leaveRoom",
                                        ![p].log = Append(@, "setRoomOp")]
    /\ UNCHANGED <<ghostsInRoom, joined, powerUsers>>
    /\ UNCHANGED notLeaveVars

\* a faulty variant of the hand-off's catch block: one that rethrows
LeaveTransferFailThrows(p) ==
    /\ leaveCalls[p].pc \in {"getPowerLevels", "sendPowerLevels", "setRoomOp"}
    /\ leaveCalls' = [leaveCalls EXCEPT ![p] = FinishedLeave(@, "thrown")]
    /\ UNCHANGED <<roomOps, ghostsInRoom, joined, powerUsers>>
    /\ UNCHANGED notLeaveVars

\* a call of the hand-off rejects: logged, and maybeLeaveGhost returns
LeaveTransferFail(p) ==
    /\ leaveCalls[p].pc \in {"getPowerLevels", "sendPowerLevels", "setRoomOp"}
    /\ leaveCalls' = [leaveCalls EXCEPT ![p] = FinishedLeave(@, "done")]
    /\ UNCHANGED <<roomOps, ghostsInRoom, joined, powerUsers>>
    /\ UNCHANGED notLeaveVars

\* intent.leaveRoom(roomMxid) returned
LeaveLeaveRoom(p) ==
    /\ leaveCalls[p].pc = "leaveRoom"
    /\ joined' = joined \ {<<LeaveRoom, leaveCalls[p].ghost>>}
    /\ leaveCalls' = [leaveCalls EXCEPT ![p].pc = "leaveGhostFromRoom",
                                        ![p].log = Append(@, "leaveRoom")]
    /\ UNCHANGED <<roomOps, ghostsInRoom, powerUsers>>
    /\ UNCHANGED notLeaveVars

\* puppetStore.leaveGhostFromRoom(userMxid, roomMxid) returned
LeaveGhostFromRoom(p) ==
    /\ leaveCalls[p].pc = "leaveGhostFromRoom"
    /\ ghostsInRoom' = ghostsInRoom \ {<<LeaveRoom, leaveCalls[p].ghost>>}
    /\ leaveCalls' = [leaveCalls EXCEPT ![p] =
          FinishedLeave([@ EXCEPT !.log = Append(@, "leaveGhostFromRoom")], "done")]
    /\ UNCHANGED <<roomOps, joined, powerUsers>>
    /\ UNCHANGED notLeaveVars

\* a call outside the hand-off's try block rejects: maybeLeaveGhost throws
LeaveFail(p) ==
    /\ leaveCalls[p].pc \in {"getGhosts", "getRoomOp", "leaveRoom", "leaveGhostFromRoom"}
    /\ leaveCalls' = [leaveCalls EXCEPT ![p] = FinishedLeave(@, "thrown")]
    /\ UNCHANGED <<roomOps, ghostsInRoom, joined, powerUsers>>
    /\ UNCHANGED notLeaveVars

\* ----------------------------------------- RoomSyncroniser.deleteForPuppet
IdleDeleteCall ==
    [pc |-> "idle", puppetId |-> 0, entries |-> {}, entry |-> NoRoom,
     aliases |-> {}, ghosts |-> {}, ghost |-> NoUserId]

\* UserSyncroniser.getPartsFromMxid: the (puppetId, userId) a ghost stands for
GhostParts(ghost) ==
    IF ghost = GhostA THEN <<3, "u1">> ELSE <<3, PuppetUserId>>

\* the head of `for (const entry of entries)`: the next entry, or the end
DeleteNextEntry(c) ==
    IF c.entries = {}
    THEN [IdleDeleteCall EXCEPT !.pc = "done", !.puppetId = c.puppetId]
    ELSE LET e == CHOOSE r \in c.entries : \A o \in c.entries : r.mxid <= o.mxid
         IN [c EXCEPT !.pc = "getRoomOp", !.entry = e, !.entries = @ \ {e},
                      !.aliases = {}, !.ghosts = {}, !.ghost = NoUserId]

\* the head of `for (const ghost of ghosts)`: the next ghost, or the end
DeleteNextGhost(c) ==
    IF c.ghosts = {}
    THEN [c EXCEPT !.pc = "emptyGhosts", !.ghost = NoUserId]
    ELSE LET g == CHOOSE x \in c.ghosts : TRUE
         IN [c EXCEPT !.pc = "deleteGhost", !.ghost = g, !.ghosts = @ \ {g}]

\* deleteForPuppet(puppetId) is called: roomStore.getByPuppetId
DeleteForPuppetCall(puppetId) ==
    /\ deleteCall.pc = "idle"
    /\ deleteCall' = [IdleDeleteCall EXCEPT !.pc = "getByPuppetId", !.puppetId = puppetId]
    /\ UNCHANGED <<roomStore, roomOps, userStore, ghostsInRoom, joined, roomAliases>>
    /\ UNCHANGED notDeleteVars

\* getByPuppetId returned the entries: deleteEntries starts with the first
DeleteGetByPuppetId ==
    /\ deleteCall.pc = "getByPuppetId"
    /\ deleteCall' = DeleteNextEntry(
          [deleteCall EXCEPT !.entries = {r \in roomStore : r.key[1] = deleteCall.puppetId}])
    /\ UNCHANGED <<roomStore, roomOps, userStore, ghostsInRoom, joined, roomAliases>>
    /\ UNCHANGED notDeleteVars

\* getRoomOp(entry.mxid) returned a client (the op's intent, or the client of
\* a real account whose token works) or null
DeleteGetRoomOp(hasClient) ==
    /\ deleteCall.pc = "getRoomOp"
    /\ LET op == GetRoomOp(deleteCall.entry.mxid) IN
         /\ hasClient => op # NoUserId
         /\ op \in Ghosts => hasClient
    /\ deleteCall' = [deleteCall EXCEPT !.pc = IF hasClient THEN "canonicalAlias"
                                               ELSE "storeDelete"]
    /\ UNCHANGED <<roomStore, roomOps, userStore, ghostsInRoom, joined, roomAliases>>
    /\ UNCHANGED notDeleteVars

\* sendStateEvent(m.room.canonical_alias, {}) returned
DeleteCanonicalAlias ==
    /\ deleteCall.pc = "canonicalAlias"
    /\ deleteCall' = [deleteCall EXCEPT !.pc = "getAliases"]
    /\ UNCHANGED <<roomStore, roomOps, userStore, ghostsInRoom, joined, roomAliases>>
    /\ UNCHANGED notDeleteVars

\* getRoomStateEvent(m.room.aliases) returned the aliases
DeleteGetAliases ==
    /\ deleteCall.pc = "getAliases"
    /\ LET aliases == {a \in roomAliases : a[1] = deleteCall.entry.mxid} IN
         deleteCall' = [deleteCall EXCEPT
             !.aliases = aliases,
             !.pc = IF aliases = {} THEN "storeDelete" ELSE "deleteAlias"]
    /\ UNCHANGED <<roomStore, roomOps, userStore, ghostsInRoom, joined, roomAliases>>
    /\ UNCHANGED notDeleteVars

\* deleteRoomAlias(alias) returned
DeleteAlias ==
    /\ deleteCall.pc = "deleteAlias"
    /\ LET a == CHOOSE x \in deleteCall.aliases : TRUE IN
         /\ roomAliases' = roomAliases \ {a}
         /\ deleteCall' = [deleteCall EXCEPT
               !.aliases = @ \ {a},
               !.pc = IF deleteCall.aliases = {a} THEN "storeDelete" ELSE "deleteAlias"]
    /\ UNCHANGED <<roomStore, roomOps, userStore, ghostsInRoom, joined>>
    /\ UNCHANGED notDeleteVars

\* a call of the alias cleanup rejects: caught, on to the DB delete
DeleteAliasFail ==
    /\ deleteCall.pc \in {"canonicalAlias", "getAliases", "deleteAlias"}
    /\ deleteCall' = [deleteCall EXCEPT !.pc = "storeDelete", !.aliases = {}]
    /\ UNCHANGED <<roomStore, roomOps, userStore, ghostsInRoom, joined, roomAliases>>
    /\ UNCHANGED notDeleteVars

\* roomStore.delete(entry) returned: the mapping and its operator record are
\* gone; botIntent.getJoinedRooms is called
DeleteStoreDelete ==
    /\ deleteCall.pc = "storeDelete"
    /\ roomStore' = {r \in roomStore : r.mxid # deleteCall.entry.mxid}
    /\ roomOps' = {o \in roomOps : o[1] # deleteCall.entry.mxid}
    /\ deleteCall' = [deleteCall EXCEPT !.pc = "getJoinedRooms"]
    /\ UNCHANGED <<userStore, ghostsInRoom, joined, roomAliases>>
    /\ UNCHANGED notDeleteVars

\* getJoinedRooms returned the rooms of the bot
DeleteGetJoinedRooms ==
    /\ deleteCall.pc = "getJoinedRooms"
    /\ deleteCall' = [deleteCall EXCEPT
          !.pc = IF <<deleteCall.entry.mxid, BotUser>> \in joined THEN "botLeave"
                 ELSE "getGhosts"]
    /\ UNCHANGED <<roomStore, roomOps, userStore, ghostsInRoom, joined, roomAliases>>
    /\ UNCHANGED notDeleteVars

\* getJoinedRooms rejects: nothing catches it, deleteEntries throws
DeleteGetJoinedRoomsFail ==
    /\ deleteCall.pc = "getJoinedRooms"
    /\ deleteCall' = [IdleDeleteCall EXCEPT !.pc = "thrown",
                                            !.puppetId = deleteCall.puppetId]
    /\ UNCHANGED <<roomStore, roomOps, userStore, ghostsInRoom, joined, roomAliases>>
    /\ UNCHANGED notDeleteVars

\* botIntent.leaveRoom returned
DeleteBotLeave ==
    /\ deleteCall.pc = "botLeave"
    /\ joined' = joined \ {<<deleteCall.entry.mxid, BotUser>>}
    /\ deleteCall' = [deleteCall EXCEPT !.pc = "getGhosts"]
    /\ UNCHANGED <<roomStore, roomOps, userStore, ghostsInRoom, roomAliases>>
    /\ UNCHANGED notDeleteVars

\* botIntent.leaveRoom rejects: caught
DeleteBotLeaveFail ==
    /\ deleteCall.pc = "botLeave"
    /\ deleteCall' = [deleteCall EXCEPT !.pc = "getGhosts"]
    /\ UNCHANGED <<roomStore, roomOps, userStore, ghostsInRoom, joined, roomAliases>>
    /\ UNCHANGED notDeleteVars

\* puppetStore.getGhostsInRoom returned the ghosts
DeleteGetGhosts ==
    /\ deleteCall.pc = "getGhosts"
    /\ deleteCall' = DeleteNextGhost(
          [deleteCall EXCEPT !.ghosts = GhostsInRoom(deleteCall.entry.mxid)])
    /\ UNCHANGED <<roomStore, roomOps, userStore, ghostsInRoom, joined, roomAliases>>
    /\ UNCHANGED notDeleteVars

\* userSync.deleteForMxid(ghost) returned: the ghost's mapping is deleted
DeleteGhostUser ==
    /\ deleteCall.pc = "deleteGhost"
    /\ userStore' = [userStore EXCEPT ![GhostParts(deleteCall.ghost)] = NoUser]
    /\ deleteCall' = [deleteCall EXCEPT !.pc = "ghostLeave"]
    /\ UNCHANGED <<roomStore, roomOps, ghostsInRoom, joined, roomAliases>>
    /\ UNCHANGED notDeleteVars

\* the ghost's intent.leaveRoom returned
DeleteGhostLeave ==
    /\ deleteCall.pc = "ghostLeave"
    /\ joined' = joined \ {<<deleteCall.entry.mxid, deleteCall.ghost>>}
    /\ deleteCall' = DeleteNextGhost(deleteCall)
    /\ UNCHANGED <<roomStore, roomOps, userStore, ghostsInRoom, roomAliases>>
    /\ UNCHANGED notDeleteVars

\* the ghost's intent.leaveRoom rejects: caught
DeleteGhostLeaveFail ==
    /\ deleteCall.pc = "ghostLeave"
    /\ deleteCall' = DeleteNextGhost(deleteCall)
    /\ UNCHANGED <<roomStore, roomOps, userStore, ghostsInRoom, joined, roomAliases>>
    /\ UNCHANGED notDeleteVars

\* puppetStore.emptyGhostsInRoom returned: on to the next entry
DeleteEmptyGhosts ==
    /\ deleteCall.pc = "emptyGhosts"
    /\ ghostsInRoom' = {x \in ghostsInRoom : x[1] # deleteCall.entry.mxid}
    /\ deleteCall' = DeleteNextEntry(deleteCall)
    /\ UNCHANGED <<roomStore, roomOps, userStore, joined, roomAliases>>
    /\ UNCHANGED notDeleteVars

\* --------------------------------------- UserSyncroniser.updateRoomOverride
\* the remote user whose room overrides are updated
OverrideUser == <<3, "u1">>

IdleOverrideCall ==
    [pc |-> "idle", roomId |-> "!r1", name |-> "", user |-> NoUser, before |-> NoUser,
     failure |-> "none"]

\* the outer catch block: the error is logged and updateRoomOverride returns
OverrideCatch(failure) ==
    overrideCall' = [overrideCall EXCEPT !.pc = "done", !.failure = failure]

\* updateRoomOverride(client, userData, roomId, roomOverride, origUserData) is
\* called: userStore.getRoomOverride
UpdateRoomOverrideCall(roomId, name) ==
    /\ overrideCall.pc \in {"idle", "done"}
    /\ overrideCall' = [IdleOverrideCall EXCEPT !.pc = "getRoomOverride",
                                                !.roomId = roomId, !.name = name]
    /\ UNCHANGED <<overrideStore, memberNames>>
    /\ UNCHANGED notOverrideVars

\* getRoomOverride returned the stored override or null: ProcessProfileUpdate
OverrideGetRoomOverride ==
    /\ overrideCall.pc = "getRoomOverride"
    /\ overrideCall' = [overrideCall EXCEPT !.pc = "profile",
                                            !.user = overrideStore[overrideCall.roomId],
                                            !.before = overrideStore[overrideCall.roomId]]
    /\ UNCHANGED <<overrideStore, memberNames>>
    /\ UNCHANGED notOverrideVars

\* ProcessProfileUpdate returned: with a changed name setRoomOverride is
\* entered (client, override data and, when passed, the original user data are
\* at hand), otherwise nothing is written
OverrideProfile(hasOrig) ==
    /\ overrideCall.pc = "profile"
    /\ LET upd == ProcessProfileUpdate(overrideCall.user, overrideCall.name) IN
         overrideCall' =
            IF upd.hasName
            THEN [overrideCall EXCEPT !.user = [name |-> upd.name],
                                      !.pc = IF hasOrig THEN "maybeGetMxid" ELSE "getOrig"]
            ELSE [overrideCall EXCEPT !.pc = "done"]
    /\ UNCHANGED <<overrideStore, memberNames>>
    /\ UNCHANGED notOverrideVars

\* setRoomOverride: userStore.get returned the original user data, or null
\* (setRoomOverride returns without a state write)
OverrideGetOrig(found) ==
    /\ overrideCall.pc = "getOrig"
    /\ found <=> userStore[OverrideUser] # NoUser
    /\ overrideCall' = [overrideCall EXCEPT !.pc = IF found THEN "maybeGetMxid"
                                                   ELSE "setRoomOverride"]
    /\ UNCHANGED <<overrideStore, memberNames>>
    /\ UNCHANGED notOverrideVars

\* setRoomOverride: roomSync.maybeGetMxid returned the room's mxid, or null
\* (setRoomOverride returns without a state write)
OverrideMaybeGetMxid(found) ==
    /\ overrideCall.pc = "maybeGetMxid"
    /\ found <=> GetByRemote(<<OverrideUser[1], overrideCall.roomId>>) # {}
    /\ overrideCall' = [overrideCall EXCEPT !.pc = IF found THEN "sendStateEvent"
                                                   ELSE "setRoomOverride"]
    /\ UNCHANGED <<overrideStore, memberNames>>
    /\ UNCHANGED notOverrideVars

\* setRoomOverride: the m.room.member state write returned
OverrideSendStateEvent ==
    /\ overrideCall.pc = "sendStateEvent"
    /\ memberNames' = [memberNames EXCEPT ![overrideCall.roomId] = overrideCall.user.name]
    /\ overrideCall' = [overrideCall EXCEPT !.pc = "setRoomOverride"]
    /\ UNCHANGED overrideStore
    /\ UNCHANGED notOverrideVars

\* a faulty variant of the inner catch block: every failure is swallowed
OverrideSendStateEventFailSwallowsAll(errcode) ==
    /\ overrideCall.pc = "sendStateEvent"
    /\ overrideCall' = [overrideCall EXCEPT !.pc = "setRoomOverride", !.failure = errcode]
    /\ UNCHANGED <<overrideStore, memberNames>>
    /\ UNCHANGED notOverrideVars

\* setRoomOverride: the m.room.member state write rejects; the inner catch
\* block swallows M_FORBIDDEN and rethrows anything else (reading the errcode
\* of an error without a body throws as well) into the outer catch block
OverrideSendStateEventFail(errcode) ==
    /\ overrideCall.pc = "sendStateEvent"
    /\ IF errcode = "M_FORBIDDEN"
       THEN overrideCall' = [overrideCall EXCEPT !.pc = "setRoomOverride",
                                                 !.failure = errcode]
       ELSE OverrideCatch(errcode)
    /\ UNCHANGED <<overrideStore, memberNames>>
    /\ UNCHANGED notOverrideVars

\* userStore.setRoomOverride(user) returned: the override is persisted
OverrideSetRoomOverride ==
    /\ overrideCall.pc = "setRoomOverride"
    /\ overrideStore' = [overrideStore EXCEPT ![overrideCall.roomId] = overrideCall.user]
    /\ overrideCall' = [overrideCall EXCEPT !.pc = "done"]
    /\ UNCHANGED memberNames
    /\ UNCHANGED notOverrideVars

\* a store or reconciler call of updateRoomOverride rejects: outer catch block
OverrideFail ==
    /\ overrideCall.pc \in {"getRoomOverride", "profile", "getOrig", "maybeGetMxid",
                            "setRoomOverride"}
    /\ OverrideCatch("collaborator")
    /\ UNCHANGED <<overrideStore, memberNames>>
    /\ UNCHANGED notOverrideVars

\* ------------------------------------------------- PuppetBridge.redactEvent
IdleRedactCall ==
    [pc |-> "idle", client |-> BotUser, eventId |-> "$e1", attempts |-> <<>>,
     firstErr |-> "none", err |-> "none", from |-> "none"]

\* redactEvent(client, roomId, eventId) is called: client.redactEvent
RedactEventCall(client, eventId) ==
    /\ redactCall.pc \in {"idle", "done", "thrown"}
    /\ redactCall' = [IdleRedactCall EXCEPT !.pc = "redact", !.client = client,
                                            !.eventId = eventId]
    /\ UNCHANGED redacted
    /\ UNCHANGED notRedactVars

\* client.redactEvent returned
RedactOk ==
    /\ redactCall.pc = "redact"
    /\ redacted' = redacted \cup {redactCall.eventId}
    /\ redactCall' = [redactCall EXCEPT !.pc = "done", !.attempts = <<redactCall.client>>]
    /\ UNCHANGED notRedactVars

\* a faulty variant of the catch block: every failure is retried as the operator
RedactFailAlwaysRetry(errcode) ==
    /\ redactCall.pc = "redact"
    /\ redactCall' = [redactCall EXCEPT !.attempts = <<redactCall.client>>,
                                        !.firstErr = errcode, !.pc = "getRoomOp"]
    /\ UNCHANGED redacted
    /\ UNCHANGED notRedactVars

\* client.redactEvent rejects: M_FORBIDDEN leads to roomSync.getRoomOp, any
\* other error is rethrown; reading the errcode of an error without a body
\* throws a TypeError in its place
RedactFail(errcode) ==
    /\ redactCall.pc = "redact"
    /\ redactCall' = [redactCall EXCEPT
          !.attempts = <<redactCall.client>>,
          !.firstErr = errcode,
          !.pc = IF errcode = "M_FORBIDDEN" THEN "getRoomOp" ELSE "thrown",
          !.err = IF errcode = "M_FORBIDDEN" THEN "none"
                  ELSE IF errcode = "nobody" THEN "TypeError" ELSE errcode,
          !.from = IF errcode = "M_FORBIDDEN" THEN "none" ELSE "client"]
    /\ UNCHANGED redacted
    /\ UNCHANGED notRedactVars

\* getRoomOp returned the operator's client (opClient.redactEvent is called),
\* or null (the original error is rethrown)
RedactGetRoomOp(hasClient) ==
    /\ redactCall.pc = "getRoomOp"
    /\ LET op == GetRoomOp(LeaveRoom) IN
         /\ hasClient => op # NoUserId
         /\ op \in Ghosts => hasClient
    /\ redactCall' = IF hasClient
                     THEN [redactCall EXCEPT !.pc = "opRedact"]
                     ELSE [redactCall EXCEPT !.pc = "thrown", !.err = redactCall.firstErr,
                                             !.from = "client"]
    /\ UNCHANGED redacted
    /\ UNCHANGED notRedactVars

\* getRoomOp rejects: its error propagates
RedactGetRoomOpFail ==
    /\ redactCall.pc = "getRoomOp"
    /\ redactCall' = [redactCall EXCEPT !.pc = "thrown", !.err = "store",
                                        !.from = "getRoomOp"]
    /\ UNCHANGED redacted
    /\ UNCHANGED notRedactVars

\* opClient.redactEvent returned
RedactOpOk ==
    /\ redactCall.pc = "opRedact"
    /\ redacted' = redacted \cup {redactCall.eventId}
    /\ redactCall' = [redactCall EXCEPT !.pc = "done",
                                        !.attempts = Append(@, GetRoomOp(LeaveRoom))]
    /\ UNCHANGED notRedactVars

\* opClient.redactEvent rejects: that error propagates
RedactOpFail(errcode) ==
    /\ redactCall.pc = "opRedact"
    /\ redactCall' = [redactCall EXCEPT !.pc = "thrown", !.err = errcode, !.from = "op",
                                        !.attempts = Append(@, GetRoomOp(LeaveRoom))]
    /\ UNCHANGED redacted
    /\ UNCHANGED notRedactVars

\* ------------------------------- RoomSyncroniser.updateBridgeInformation
IdleBridgeCall ==
    [pc |-> "idle", key |-> <<3, "chan1">>, room |-> NoRoom, client |-> NoUserId,
     before |-> 0, calls |-> 0]

\* updateBridgeInformation(data) is called: maybeGet(data)
BridgeInfoCall(key) ==
    /\ bridgeCall.pc \in {"idle", "done", "thrown"}
    /\ bridgeCall.calls < MaxBridgeCalls
    /\ bridgeCall' = [IdleBridgeCall EXCEPT !.pc = "maybeGet", !.key = key,
                                            !.before = Len(bridgeEvents),
                                            !.calls = bridgeCall.calls + 1]
    /\ UNCHANGED <<bridgeEvents, partsCall, bgCall>>
    /\ UNCHANGED notInfoVars

\* maybeGet returned the entry, or null: "Room not found", return
BridgeMaybeGet(room) ==
    /\ bridgeCall.pc = "maybeGet"
    /\ ~LockHeld(mxidLock, bridgeCall.key)
    /\ \/ room \in GetByRemote(bridgeCall.key)
       \/ room = NoRoom /\ GetByRemote(bridgeCall.key) = {}
    /\ bridgeCall' = [bridgeCall EXCEPT !.room = room,
                                        !.pc = IF room = NoRoom THEN "done" ELSE "getRoomOp"]
    /\ UNCHANGED <<bridgeEvents, partsCall, bgCall>>
    /\ UNCHANGED notInfoVars

\* a faulty variant of the operator lookup: the call goes on without a client
BridgeGetRoomOpNoCheck(hasClient) ==
    /\ bridgeCall.pc = "getRoomOp"
    /\ LET op == GetRoomOp(bridgeCall.room.mxid) IN
         /\ hasClient => op # NoUserId
         /\ op \in Ghosts \cup {BotUser} => hasClient
         /\ bridgeCall' = [bridgeCall EXCEPT !.pc = "provisioner",
                                             !.client = IF hasClient THEN op ELSE NoUserId]
    /\ UNCHANGED <<bridgeEvents, partsCall, bgCall>>
    /\ UNCHANGED notInfoVars

\* getRoomOp(room.mxid) returned the operator's client, or null: "No OP in
\* room", return.  A namespaced operator always has a client; another account
\* has one when its token is valid.
BridgeGetRoomOp(hasClient) ==
    /\ bridgeCall.pc = "getRoomOp"
    /\ LET op == GetRoomOp(bridgeCall.room.mxid) IN
         /\ hasClient => op # NoUserId
         /\ op \in Ghosts \cup {BotUser} => hasClient
         /\ bridgeCall' = IF hasClient
                          THEN [bridgeCall EXCEPT !.pc = "provisioner", !.client = op]
                          ELSE [bridgeCall EXCEPT !.pc = "done"]
    /\ UNCHANGED <<bridgeEvents, partsCall, bgCall>>
    /\ UNCHANGED notInfoVars

\* provisioner.getMxid returned the creator; the group is looked up when the
\* room has a group id and group sync is enabled
BridgeProvisioner ==
    /\ bridgeCall.pc = "provisioner"
    /\ bridgeCall' = [bridgeCall EXCEPT !.pc =
          IF bridgeCall.room.groupId # NoGroup /\ groupSyncEnabled THEN "groupGet"
          ELSE "send"]
    /\ UNCHANGED <<bridgeEvents, partsCall, bgCall>>
    /\ UNCHANGED notInfoVars

\* groupSync.maybeGet returned the group or null
BridgeGroupGet ==
    /\ bridgeCall.pc = "groupGet"
    /\ bridgeCall' = [bridgeCall EXCEPT !.pc = "send"]
    /\ UNCHANGED <<bridgeEvents, partsCall, bgCall>>
    /\ UNCHANGED notInfoVars

\* client.sendStateEvent(room.mxid, "m.bridge", stateKey, content) returned
BridgeSend ==
    /\ bridgeCall.pc = "send"
    /\ bridgeEvents' = Append(bridgeEvents,
          [mxid |-> bridgeCall.room.mxid, type |-> "m.bridge", sender |-> bridgeCall.client])
    /\ bridgeCall' = [bridgeCall EXCEPT !.pc = "done"]
    /\ UNCHANGED <<partsCall, bgCall>>
    /\ UNCHANGED notInfoVars

\* an awaited collaborator call rejects: there is no handler, the error
\* propagates
BridgeFail ==
    /\ bridgeCall.pc \in {"maybeGet", "getRoomOp", "provisioner", "groupGet", "send"}
    /\ bridgeCall' = [bridgeCall EXCEPT !.pc = "thrown"]
    /\ UNCHANGED <<bridgeEvents, partsCall, bgCall>>
    /\ UNCHANGED notInfoVars

\* --------------------------------------- RoomSyncroniser.getPartsFromMxid
\* strings are sequences of characters; the namespace prefix of the bridge's
\* aliases and the ":domain" ending are one token each
DigitChars == <<"0", "1", "2", "3", "4", "5", "6", "7", "8", "9">>

IsDigit(c) == \E i \in 1..Len(DigitChars) : DigitChars[i] = c

DigitValue(c) == (CHOOSE i \in 1..Len(DigitChars) : DigitChars[i] = c) - 1

AliasPrefix == "#_bridge_"
ForeignPrefix == "#other_"
Domain == ":hs"

Seqs(S, n) == UNION {[1..k -> S] : k \in 0..n}

\* `${n}`: the decimal digits of a number
RECURSIVE NumberToString(_)
NumberToString(n) ==
    IF n < Len(DigitChars) THEN <<DigitChars[n + 1]>>
    ELSE NumberToString(n \div Len(DigitChars)) \o <<DigitChars[(n % Len(DigitChars)) + 1]>>

\* Number(digits) of a non-empty string of decimal digits
RECURSIVE Number(_)
Number(ds) ==
    IF Len(ds) = 0 THEN 0
    ELSE Number(SubSeq(ds, 1, Len(ds) - 1)) * Len(DigitChars) + DigitValue(ds[Len(ds)])

\* Util.str2mxid is not part of the available source; modelled from the
\* specification as an escaping into lower-case characters: "_" becomes "__",
\* an upper-case letter becomes "_" and its lower-case letter
RECURSIVE Str2Mxid(_)
Str2Mxid(str) ==
    IF Len(str) = 0 THEN <<>>
    ELSE (CASE str[1] = "_" -> <<"_", "_">>
            [] str[1] = "A" -> <<"_", "a">>
            [] OTHER -> <<str[1]>>) \o Str2Mxid(Tail(str))

\* Util.mxid2str, the unescaping: "_" takes the next character with it
RECURSIVE Mxid2Str(_)
Mxid2Str(str) ==
    IF Len(str) = 0 THEN <<>>
    ELSE IF str[1] = "_"
         THEN IF Len(str) = 1 THEN <<>>
              ELSE <<(CASE str[2] = "_" -> "_"
                        [] str[2] = "a" -> "A"
                        [] OTHER -> str[2])>> \o Mxid2Str(SubSeq(str, 3, Len(str)))
         ELSE <<str[1]>> \o Mxid2Str(Tail(str))

\* the "!..." identifier of a room of the model
RoomIdString(mxid) == <<"!">> \o NumberToString(mxid) \o <<Domain>>

\* the alias a room created for (puppetId, roomId) gets: the homeserver puts
\* "#" and the domain around room_alias_name
CreatedAlias(puppetId, roomId) ==
    <<AliasPrefix>> \o NumberToString(puppetId) \o <<"_">> \o Str2Mxid(roomId) \o <<Domain>>

\* AS.getSuffixForAlias: what follows the namespace prefix, up to the domain
HasSuffix(mxid) == Len(mxid) >= 2 /\ mxid[1] = AliasPrefix /\ mxid[Len(mxid)] = Domain

GetSuffixForAlias(mxid) == SubSeq(mxid, 2, Len(mxid) - 1)

\* the number of leading decimal digits of a string: what (\d+) takes
RECURSIVE LeadingDigits(_)
LeadingDigits(str) ==
    IF Len(str) = 0 \/ ~IsDigit(str[1]) THEN 0 ELSE 1 + LeadingDigits(Tail(str))

NoParts == [found |-> FALSE, puppetId |-> 0, roomId |-> <<>>]

\* a faulty variant of the parse: the suffix is split at its last underscore
ParseSuffixLastUnderscore(suffix) ==
    LET n == LeadingDigits(suffix)
        us == {i \in 1..Len(suffix) : suffix[i] = "_"}
    IN IF n = 0 \/ n = Len(suffix) \/ suffix[n + 1] # "_" THEN NoParts
       ELSE LET u == CHOOSE i \in us : \A j \in us : j <= i IN
            [found |-> TRUE,
             puppetId |-> Number(SubSeq(suffix, 1, n)),
             roomId |-> Mxid2Str(SubSeq(suffix, u + 1, Len(suffix)))]

\* suffix.match(/^(\d+)_(.*)/), Number() of the first group and mxid2str of
\* the second
ParseSuffix(suffix) ==
    LET n == LeadingDigits(suffix) IN
    IF n = 0 \/ n = Len(suffix) \/ suffix[n + 1] # "_" THEN NoParts
    ELSE [found |-> TRUE,
          puppetId |-> Number(SubSeq(suffix, 1, n)),
          roomId |-> Mxid2Str(SubSeq(suffix, n + 2, Len(suffix)))]

IdlePartsCall ==
    [pc |-> "idle", mxid |-> <<>>, created |-> FALSE, puppetId |-> 0, roomId |-> <<>>,
     ret |-> NoParts]

\* getPartsFromMxid(mxid) is called with a room identifier or an alias
GetPartsCall(mxid) ==
    /\ partsCall.pc \in {"idle", "done"}
    /\ partsCall' = [IdlePartsCall EXCEPT
          !.mxid = mxid,
          !.pc = IF Len(mxid) > 0 /\ mxid[1] = "!" THEN "getByMxid" ELSE "parse"]
    /\ UNCHANGED <<bridgeEvents, bridgeCall, bgCall>>
    /\ UNCHANGED notInfoVars

\* getPartsFromMxid is called with the alias derived at the creation of the
\* room of (puppetId, roomId)
GetPartsCallCreated(puppetId, roomId) ==
    /\ partsCall.pc \in {"idle", "done"}
    /\ partsCall' = [IdlePartsCall EXCEPT
          !.mxid = CreatedAlias(puppetId, roomId), !.pc = "parse",
          !.created = TRUE, !.puppetId = puppetId, !.roomId = roomId]
    /\ UNCHANGED <<bridgeEvents, bridgeCall, bgCall>>
    /\ UNCHANGED notInfoVars

\* roomStore.getByMxid returned the entry or null
GetPartsById ==
    /\ partsCall.pc = "getByMxid"
    /\ LET rooms == {r \in roomStore : RoomIdString(r.mxid) = partsCall.mxid} IN
         partsCall' = [partsCall EXCEPT
            !.pc = "done",
            !.ret = IF rooms = {} THEN NoParts
                    ELSE LET room == CHOOSE r \in rooms : TRUE IN
                         [found |-> TRUE, puppetId |-> room.key[1], roomId |-> room.key[2]]]
    /\ UNCHANGED <<bridgeEvents, bridgeCall, bgCall>>
    /\ UNCHANGED notInfoVars

\* the alias form: no suffix, no match, or the parsed pair
GetPartsByAlias ==
    /\ partsCall.pc = "parse"
    /\ partsCall' = [partsCall EXCEPT
          !.pc = "done",
          !.ret = IF HasSuffix(partsCall.mxid)
                  THEN ParseSuffix(GetSuffixForAlias(partsCall.mxid))
                  ELSE NoParts]
    /\ UNCHANGED <<bridgeEvents, bridgeCall, bgCall>>
    /\ UNCHANGED notInfoVars

\* ---------------------------------------------------------- specifications
\* the state after construction of the bridge
RoomStart ==
    /\ mxidLock = [k \in RoomKeys |-> NoHolder]
    /\ roomStore = {}
    /\ roomOps = {}
    /\ matrixRooms = {}
    /\ groupRooms = {}
    /\ roomCalls = [p \in RoomCalls |-> IdleCall]

UserStart ==
    /\ clientLock = [k \in UserKeys |-> NoHolder]
    /\ userStore = [k \in HookUserKeys |-> NoUser]
    /\ ghostNames = [k \in HookUserKeys |-> ""]
    /\ userCalls = [p \in UserCalls |-> IdleUserCall]

UploadStart ==
    /\ mxcLookupLock = [k \in Fingerprints |-> NoHolder]
    /\ fileStore = [k \in Fingerprints |-> NoMxc]
    /\ uploadCount = 0
    /\ uploadCalls = [p \in UploadCalls |-> IdleUploadCall]

PuppetStart ==
    /\ roomAliases = {}
    /\ deleteCall = IdleDeleteCall
    /\ ghostsInRoom = {}
    /\ joined = {}
    /\ powerUsers = {}
    /\ leaveCalls = [p \in LeaveCalls |-> IdleLeaveCall]

OverrideStart ==
    /\ overrideStore = [r \in OverrideRooms |-> NoUser]
    /\ memberNames = [r \in OverrideRooms |-> ""]
    /\ overrideCall = IdleOverrideCall

RedactStart ==
    /\ redacted = {}
    /\ redactCall = IdleRedactCall

\* ---- the continuation of getClient: room overrides after the profile writes ----

\* no continuation is running; updated and reapplied count, per room, the calls
\* of updateRoomOverride and of setRoomOverride the continuation made
IdleBgCall ==
    [pc |-> "idle", overrides |-> {}, changed |-> FALSE,
     updated |-> [r \in OverrideRooms |-> 0],
     reapplied |-> [r \in OverrideRooms |-> 0],
     updating |-> {}, applying |-> {}]

\* the rooms an override is stored for, as getAllRoomOverrides lists them
StoredOverrides == {r \in OverrideRooms : overrideStore[r] # NoUser}

\* Promise.all(promiseList) has settled, rejected or not, and the callback runs
\* to its first await: every room of data.roomOverrides is noted in
\* roomIdsNotToUpdate and handed to updateRoomOverride, which is not awaited;
\* changed says promiseList.length > 0
ContinuationStart(overrides, changed) ==
    /\ bgCall.pc = "idle"
    /\ bgCall' = [bgCall EXCEPT !.pc = IF changed THEN "getAll" ELSE "done",
                                !.overrides = overrides,
                                !.changed = changed,
                                !.updated = [r \in OverrideRooms |->
                                               IF r \in overrides THEN @[r] + 1 ELSE @[r]],
                                !.updating = overrides]
    /\ UNCHANGED <<bridgeEvents, bridgeCall, partsCall>>
    /\ UNCHANGED notInfoVars

\* an updateRoomOverride the continuation started ends. When the override
\* differs from the stored one, the member name is written and the override is
\* persisted; a write that is forbidden, or a room without a mapping, skips the
\* member name and persists all the same; any other failure is logged and
\* nothing is persisted
ContinuationUpdateDone(roomId, name, outcome) ==
    /\ roomId \in bgCall.updating
    /\ bgCall' = [bgCall EXCEPT !.updating = @ \ {roomId}]
    /\ LET differs == overrideStore[roomId] # [name |-> name]
       IN /\ overrideStore' = IF differs /\ outcome # "failed"
                              THEN [overrideStore EXCEPT ![roomId] = [name |-> name]]
                              ELSE overrideStore
          /\ memberNames' = IF differs /\ outcome = "sent"
                            THEN [memberNames EXCEPT ![roomId] = name]
                            ELSE memberNames
    /\ UNCHANGED <<bridgeEvents, bridgeCall, partsCall, overrideCall>>
    /\ UNCHANGED <<roomVars, userVars, uploadVars, puppetVars, leaveCalls, deleteVars,
                   redactVars>>

\* a faulty variant of ContinuationGetAll: the rooms of roomIdsNotToUpdate are
\* not skipped
ContinuationGetAllNoSkip ==
    /\ bgCall.pc = "getAll"
    /\ LET todo == StoredOverrides
       IN bgCall' = [bgCall EXCEPT !.pc = "done",
                                   !.reapplied = [r \in OverrideRooms |->
                                                    IF r \in todo THEN @[r] + 1 ELSE @[r]],
                                   !.applying = todo]
    /\ UNCHANGED <<bridgeEvents, bridgeCall, partsCall>>
    /\ UNCHANGED notInfoVars

\* getAllRoomOverrides answers: every stored override whose room is not in
\* roomIdsNotToUpdate is handed to setRoomOverride, which is not awaited
ContinuationGetAll ==
    /\ bgCall.pc = "getAll"
    /\ LET todo == StoredOverrides \ bgCall.overrides
       IN bgCall' = [bgCall EXCEPT !.pc = "done",
                                   !.reapplied = [r \in OverrideRooms |->
                                                    IF r \in todo THEN @[r] + 1 ELSE @[r]],
                                   !.applying = todo]
    /\ UNCHANGED <<bridgeEvents, bridgeCall, partsCall>>
    /\ UNCHANGED notInfoVars

\* getAllRoomOverrides rejects: the callback ends there, nothing is re-applied
ContinuationGetAllFail ==
    /\ bgCall.pc = "getAll"
    /\ bgCall' = [bgCall EXCEPT !.pc = "failed"]
    /\ UNCHANGED <<bridgeEvents, bridgeCall, partsCall>>
    /\ UNCHANGED notInfoVars

\* a setRoomOverride the continuation started ends: the member name of the room
\* is written from the override it was handed, unless the room has no mapping or
\* the write is rejected
ContinuationSetRoomOverride(roomId, sent) ==
    /\ roomId \in bgCall.applying
    /\ bgCall' = [bgCall EXCEPT !.applying = @ \ {roomId}]
    /\ memberNames' = IF sent
                      THEN [memberNames EXCEPT ![roomId] = overrideStore[roomId].name]
                      ELSE memberNames
    /\ UNCHANGED <<bridgeEvents, bridgeCall, partsCall, overrideStore, overrideCall>>
    /\ UNCHANGED <<roomVars, userVars, uploadVars, puppetVars, leaveCalls, deleteVars,
                   redactVars>>

InfoStart ==
    /\ bridgeEvents = <<>>
    /\ bridgeCall = IdleBridgeCall
    /\ partsCall = IdlePartsCall
    /\ bgCall = IdleBgCall

RoomInit ==
    /\ PuppetStart
    /\ RoomStart
    /\ groupSyncEnabled \in BOOLEAN
    /\ UserStart
    /\ UploadStart
    /\ OverrideStart
    /\ RedactStart
    /\ InfoStart

UserInit ==
    /\ PuppetStart
    /\ UserStart
    /\ groupSyncEnabled = TRUE
    /\ RoomStart
    /\ UploadStart
    /\ OverrideStart
    /\ RedactStart
    /\ InfoStart

UploadInit ==
    /\ PuppetStart
    /\ UploadStart
    /\ OverrideStart
    /\ RedactStart
    /\ InfoStart
    /\ groupSyncEnabled = TRUE
    /\ RoomStart
    /\ UserStart

UploadNext ==
    \/ \E p \in UploadCalls, thing \in Things : UploadCall(p, thing)
    \/ \E p \in UploadCalls : UploadSet(p)
    \/ \E p \in UploadCalls : UploadHit(p)
    \/ \E p \in UploadCalls : UploadLocatorMiss(p)
    \/ \E p \in UploadCalls : UploadDownload(p)
    \/ \E p \in UploadCalls : UploadDigestMiss(p)
    \/ \E p \in UploadCalls : UploadTransport(p)
    \/ \E p \in UploadCalls : UploadStoreLocator(p)
    \/ \E p \in UploadCalls : UploadStoreDigest(p)
    \/ \E p \in UploadCalls : UploadFail(p)
    \/ \E key \in Fingerprints : MxcLockTimeout(key)

UserNext ==
    \/ \E p \in UserCalls, key \in UserKeys, name \in Names : GetClientCall(p, key, name)
    \/ \E p \in UserCalls : GetClientPuppet(p)
    \/ \E p \in UserCalls : GetClientWait(p)
    \/ \E p \in UserCalls : GetClientSet(p)
    \/ \E p \in UserCalls : GetClientFail(p)
    \/ \E p \in UserCalls : GetClientFound(p)
    \/ \E p \in UserCalls, hasHook \in BOOLEAN : GetClientFirstSight(p, hasHook)
    \/ \E p \in UserCalls, newKey \in HookUserKeys, newName \in HookNames :
          GetClientHook(p, newKey, newName)
    \/ \E p \in UserCalls : GetClientEnsureRegistered(p)
    \/ \E p \in UserCalls : GetClientProfile(p)
    \/ \E p \in UserCalls : GetClientStore(p)
    \/ \E p \in UserCalls : GetClientSetDisplayName(p)
    \/ \E p \in UserCalls : GetClientSetDisplayNameFail(p)

SpecRoom == RoomInit /\ [][RoomNext]_vars

\* creations and lookups of one room: getMxid(data, doCreate=true) calls with
\* the same data, no createRoom hook and no group, and maybeGet calls
LookupInit ==
    /\ PuppetStart
    /\ mxidLock = [k \in RoomKeys |-> NoHolder]
    /\ roomStore = {}
    /\ roomOps = {}
    /\ matrixRooms = {}
    /\ groupRooms = {}
    /\ roomCalls = [p \in LookupCalls |-> IdleCall]
    /\ groupSyncEnabled = FALSE
    /\ UserStart
    /\ UploadStart
    /\ OverrideStart
    /\ RedactStart
    /\ InfoStart

LookupNext ==
    \/ \E p \in LookupCalls, key \in RoomKeys : GetMxidCall(p, key, BotUser, "a", NoGroup, TRUE)
    \/ \E p \in LookupCalls : GetMxidSet(p)
    \/ \E p \in LookupCalls : GetMxidFail(p)
    \/ \E p \in LookupCalls : GetMxidStartCreate(p, FALSE)
    \/ \E p \in LookupCalls : GetMxidProfileNew(p)
    \/ \E p \in LookupCalls : GetMxidCreateRoom(p)
    \/ \E p \in LookupCalls : GetMxidSetRoomOp(p)
    \/ \E p \in LookupCalls, room \in roomStore : GetMxidFound(p, room)
    \/ \E p \in LookupCalls : GetMxidGetRoomOp(p)
    \/ \E p \in LookupCalls : GetMxidProfileOld(p)
    \/ \E p \in LookupCalls : GetMxidStore(p)
    \/ \E p \in LookupCalls, key \in RoomKeys : MaybeGetCall(p, key)
    \/ \E p \in LookupCalls, room \in roomStore \cup {NoRoom} : MaybeGetRead(p, room)

SpecLookup == LookupInit /\ [][LookupNext]_vars

SpecUser == UserInit /\ [][UserNext]_vars

\* first sights with both creation hooks configured: getMxid(data) for a room
\* named "a" and getClient(data) for a user named "a", nothing stored yet
HookInit ==
    /\ PuppetStart
    /\ mxidLock = [k \in RoomKeys |-> NoHolder]
    /\ roomStore = {}
    /\ roomOps = {}
    /\ matrixRooms = {}
    /\ groupRooms = {}
    /\ roomCalls = [p \in HookCalls |-> IdleCall]
    /\ groupSyncEnabled = FALSE
    /\ clientLock = [k \in UserKeys |-> NoHolder]
    /\ userStore = [k \in HookUserKeys |-> NoUser]
    /\ ghostNames = [k \in HookUserKeys |-> ""]
    /\ userCalls = [p \in HookCalls |-> IdleUserCall]
    /\ UploadStart
    /\ OverrideStart
    /\ RedactStart
    /\ InfoStart

HookNext ==
    \/ \E p \in HookCalls, key \in RoomKeys : GetMxidCall(p, key, BotUser, "a", NoGroup, TRUE)
    \/ \E p \in HookCalls : GetMxidSet(p)
    \/ \E p \in HookCalls : GetMxidFail(p)
    \/ \E p \in HookCalls : GetMxidStartCreate(p, TRUE)
    \/ \E p \in HookCalls, newKey \in HookKeys, newName \in HookNames :
          GetMxidHook(p, newKey, newName)
    \/ \E p \in HookCalls : GetMxidProfileNew(p)
    \/ \E p \in HookCalls : GetMxidCreateRoom(p)
    \/ \E p \in HookCalls : GetMxidSetRoomOp(p)
    \/ \E p \in HookCalls : GetMxidStore(p)
    \/ \E p \in HookCalls : GetClientCall(p, <<3, "u1">>, "a")
    \/ \E p \in HookCalls : GetClientWait(p)
    \/ \E p \in HookCalls : GetClientSet(p)
    \/ \E p \in HookCalls : GetClientFail(p)
    \/ \E p \in HookCalls : GetClientFirstSight(p, TRUE)
    \/ \E p \in HookCalls, newKey \in HookUserKeys, newName \in HookNames :
          GetClientHook(p, newKey, newName)
    \/ \E p \in HookCalls : GetClientEnsureRegistered(p)
    \/ \E p \in HookCalls : GetClientProfile(p)
    \/ \E p \in HookCalls : GetClientStore(p)
    \/ \E p \in HookCalls : GetClientSetDisplayName(p)
    \/ \E p \in HookCalls : GetClientSetDisplayNameFail(p)

SpecHook == HookInit /\ [][HookNext]_vars

\* a remote room that is mapped or not, with or without a group, whose
\* operator record is absent, a ghost, the bot or a real user's account
BridgeInit ==
    /\ PuppetStart
    /\ mxidLock = [k \in RoomKeys |-> NoHolder]
    /\ \E mapped \in BOOLEAN, groupId \in {NoGroup, "g1"}, op \in {NoUserId, GhostA, BotUser, RealUser} :
          /\ roomStore = IF mapped
                         THEN {[NewData(LeaveRoom, <<3, "chan1">>) EXCEPT !.name = "a",
                                                                         !.groupId = groupId]}
                         ELSE {}
          /\ matrixRooms = IF mapped
                           THEN {[mxid |-> LeaveRoom, key |-> <<3, "chan1">>, creator |-> BotUser]}
                           ELSE {}
          /\ roomOps = IF mapped /\ op # NoUserId THEN {<<LeaveRoom, op>>} ELSE {}
          /\ groupRooms = IF mapped /\ groupId # NoGroup THEN {<<groupId, <<3, "chan1">>>>} ELSE {}
    /\ groupSyncEnabled \in BOOLEAN
    /\ roomCalls = [p \in RoomCalls |-> IdleCall]
    /\ UserStart
    /\ UploadStart
    /\ OverrideStart
    /\ RedactStart
    /\ InfoStart

BridgeNext ==
    \/ \E key \in RoomKeys : BridgeInfoCall(key)
    \/ \E room \in roomStore \cup {NoRoom} : BridgeMaybeGet(room)
    \/ \E hasClient \in BOOLEAN : BridgeGetRoomOp(hasClient)
    \/ BridgeProvisioner
    \/ BridgeGroupGet
    \/ BridgeSend
    \/ BridgeFail

SpecBridge == BridgeInit /\ [][BridgeNext]_vars

\* the characters of remote room ids and of alias suffixes
RoomIdChars == {"a", "A", "_", "1"}
SuffixChars == {"7", "1", "_", "a"}
\* the puppet ids rooms are created for
AliasPuppetIds == {3, 7, 37}

\* a bridge with one mapped room
PartsInit ==
    /\ PuppetStart
    /\ mxidLock = [k \in RoomKeys |-> NoHolder]
    /\ roomStore = {[NewData(LeaveRoom, <<3, "chan1">>) EXCEPT !.name = "a"]}
    /\ matrixRooms = {[mxid |-> LeaveRoom, key |-> <<3, "chan1">>, creator |-> BotUser]}
    /\ roomOps = {<<LeaveRoom, BotUser>>}
    /\ groupRooms = {}
    /\ groupSyncEnabled = FALSE
    /\ roomCalls = [p \in RoomCalls |-> IdleCall]
    /\ UserStart
    /\ UploadStart
    /\ OverrideStart
    /\ RedactStart
    /\ InfoStart

PartsNext ==
    \/ \E mxid \in {LeaveRoom, ExternalMxid} : GetPartsCall(RoomIdString(mxid))
    \/ \E prefix \in {AliasPrefix, ForeignPrefix}, suffix \in Seqs(SuffixChars, MaxSuffixLen) :
          GetPartsCall(<<prefix>> \o suffix \o <<Domain>>)
    \/ \E puppetId \in AliasPuppetIds, roomId \in Seqs(RoomIdChars, MaxRoomIdLen) :
          GetPartsCallCreated(puppetId, roomId)
    \/ GetPartsById
    \/ GetPartsByAlias

SpecParts == PartsInit /\ [][PartsNext]_vars

\* the safety timeout of mxidLock releases a registered holder
MxidLockTimeout(key) ==
    /\ LockHeld(mxidLock, key)
    /\ mxidLock' = LockRelease(mxidLock, key)
    /\ roomCalls' = WakeWaiters(roomCalls, key)
    /\ UNCHANGED <<roomStore, roomOps, matrixRooms, groupRooms, groupSyncEnabled>>
    /\ UNCHANGED notRoomVars

\* the safety timeout of clientLock releases a registered holder
ClientLockTimeout(key) ==
    /\ LockHeld(clientLock, key)
    /\ clientLock' = LockRelease(clientLock, key)
    /\ userCalls' = WakeUserWaiters(userCalls, key)
    /\ UNCHANGED <<userStore, ghostNames>>
    /\ UNCHANGED notUserVars

\* waits on a lock key, one component at a time: the calls of the two other
\* components have returned before (a getMxid that found nothing with
\* doCreate = false, a getClient on the double-puppet path, an uploadContent
\* whose first lookup failed)
WaitInit ==
    /\ PuppetStart
    /\ mxidLock = [k \in RoomKeys |-> NoHolder]
    /\ roomStore = {}
    /\ roomOps = {}
    /\ matrixRooms = {}
    /\ groupRooms = {}
    /\ groupSyncEnabled = FALSE
    /\ clientLock = [k \in UserKeys |-> NoHolder]
    /\ userStore = [k \in HookUserKeys |-> NoUser]
    /\ ghostNames = [k \in HookUserKeys |-> ""]
    /\ mxcLookupLock = [k \in Fingerprints |-> NoHolder]
    /\ fileStore = [k \in Fingerprints |-> NoMxc]
    /\ uploadCount = 0
    /\ OverrideStart
    /\ RedactStart
    /\ InfoStart
    /\ \E active \in {"getMxid", "getClient", "uploadContent"} :
          /\ roomCalls = [p \in WaitCalls |->
                IF active = "getMxid" THEN IdleCall
                ELSE Finished([IdleCall EXCEPT !.op = "getMxid"], "done", NoRet)]
          /\ userCalls = [p \in WaitCalls |->
                IF active = "getClient" THEN IdleUserCall
                ELSE FinishedUser([IdleUserCall EXCEPT !.key = <<3, PuppetUserId>>,
                                                       !.dataKey = <<3, PuppetUserId>>],
                                  "done", "puppet", "none")]
          /\ uploadCalls = [p \in WaitCalls |->
                IF active = "uploadContent" THEN IdleUploadCall
                ELSE FinishedUpload([IdleUploadCall EXCEPT !.thing = "http://a"],
                                    "thrown", NoMxc)]

WaitNext ==
    \/ \E p \in WaitCalls, key \in RoomKeys : GetMxidCall(p, key, BotUser, "a", NoGroup, TRUE)
    \/ \E p \in WaitCalls : GetMxidSet(p)
    \/ \E p \in WaitCalls : GetMxidFail(p)
    \/ \E p \in WaitCalls : GetMxidStartCreate(p, FALSE)
    \/ \E p \in WaitCalls : GetMxidProfileNew(p)
    \/ \E p \in WaitCalls : GetMxidCreateRoom(p)
    \/ \E p \in WaitCalls : GetMxidSetRoomOp(p)
    \/ \E p \in WaitCalls, room \in roomStore : GetMxidFound(p, room)
    \/ \E p \in WaitCalls : GetMxidGetRoomOp(p)
    \/ \E p \in WaitCalls : GetMxidProfileOld(p)
    \/ \E p \in WaitCalls : GetMxidStore(p)
    \/ \E key \in RoomKeys : MxidLockTimeout(key)
    \/ \E p \in WaitCalls : GetClientCall(p, <<3, "u1">>, "a")
    \/ \E p \in WaitCalls : GetClientWait(p)
    \/ \E p \in WaitCalls : GetClientSet(p)
    \/ \E p \in WaitCalls : GetClientFail(p)
    \/ \E p \in WaitCalls : GetClientFound(p)
    \/ \E p \in WaitCalls : GetClientFirstSight(p, FALSE)
    \/ \E p \in WaitCalls : GetClientEnsureRegistered(p)
    \/ \E p \in WaitCalls : GetClientProfile(p)
    \/ \E p \in WaitCalls : GetClientStore(p)
    \/ \E p \in WaitCalls : GetClientSetDisplayName(p)
    \/ \E p \in WaitCalls : GetClientSetDisplayNameFail(p)
    \/ \E key \in UserKeys : ClientLockTimeout(key)
    \/ \E p \in WaitCalls, thing \in Things : UploadCall(p, thing)
    \/ \E p \in WaitCalls : UploadSet(p)
    \/ \E p \in WaitCalls : UploadHit(p)
    \/ \E p \in WaitCalls : UploadLocatorMiss(p)
    \/ \E p \in WaitCalls : UploadDownload(p)
    \/ \E p \in WaitCalls : UploadDigestMiss(p)
    \/ \E p \in WaitCalls : UploadTransport(p)
    \/ \E p \in WaitCalls : UploadStoreLocator(p)
    \/ \E p \in WaitCalls : UploadStoreDigest(p)
    \/ \E p \in WaitCalls : UploadFail(p)
    \/ \E key \in Fingerprints : MxcLockTimeout(key)

\* the scheduler runs every continuation whose wait() has returned, and every
\* timer of a held key fires; collaborators may never respond
WaitFairness ==
    /\ \A p \in WaitCalls : WF_vars(GetMxidSet(p))
    /\ \A p \in WaitCalls : WF_vars(GetClientSet(p))
    /\ \A p \in WaitCalls : WF_vars(UploadSet(p))
    /\ \A key \in RoomKeys : WF_vars(MxidLockTimeout(key))
    /\ \A key \in UserKeys : WF_vars(ClientLockTimeout(key))
    /\ \A key \in Fingerprints : WF_vars(MxcLockTimeout(key))

SpecWait == WaitInit /\ [][WaitNext]_vars /\ WaitFairness

\* a bridged room with some ghosts in it; its operator is the bot or one of
\* the ghosts, and holds operator power on the target side
LeaveInit ==
    /\ mxidLock = [k \in RoomKeys |-> NoHolder]
    /\ roomStore = {[NewData(LeaveRoom, <<3, "chan1">>) EXCEPT !.name = "a"]}
    /\ matrixRooms = {[mxid |-> LeaveRoom, key |-> <<3, "chan1">>, creator |-> BotUser]}
    /\ groupRooms = {}
    /\ groupSyncEnabled = TRUE
    /\ roomCalls = [p \in RoomCalls |-> IdleCall]
    /\ UserStart
    /\ UploadStart
    /\ OverrideStart
    /\ RedactStart
    /\ InfoStart
    /\ \E present \in SUBSET Ghosts :
          /\ present # {}
          /\ ghostsInRoom = {<<LeaveRoom, g>> : g \in present}
          /\ joined = {<<LeaveRoom, u>> : u \in present \cup {BotUser}}
          /\ \E op \in present \cup {BotUser} :
                /\ roomOps = {<<LeaveRoom, op>>}
                /\ powerUsers = {<<LeaveRoom, op>>}
    /\ leaveCalls = [p \in LeaveCalls |-> IdleLeaveCall]
    /\ roomAliases = {}
    /\ deleteCall = IdleDeleteCall

\* puppet 3 has up to MaxDeleteRooms mapped rooms and puppet 7 has one; every
\* room has an alias, the bot and two ghosts in it, and for an operator
\* nobody, a ghost or a real account
DeleteInit ==
    /\ mxidLock = [k \in RoomKeys |-> NoHolder]
    /\ matrixRooms = {}
    /\ groupRooms = {}
    /\ groupSyncEnabled = TRUE
    /\ roomCalls = [p \in RoomCalls |-> IdleCall]
    /\ clientLock = [k \in UserKeys |-> NoHolder]
    /\ userStore = [k \in UserKeys |-> [name |-> "a"]]
    /\ ghostNames = [k \in UserKeys |-> "a"]
    /\ userCalls = [p \in UserCalls |-> IdleUserCall]
    /\ UploadStart
    /\ OverrideStart
    /\ RedactStart
    /\ InfoStart
    /\ powerUsers = {}
    /\ leaveCalls = [p \in LeaveCalls |-> IdleLeaveCall]
    /\ deleteCall = IdleDeleteCall
    /\ \E n \in 0..MaxDeleteRooms :
          /\ roomStore = {NewData(i, <<3, ChanIds[i]>>) : i \in 1..n}
                            \cup {NewData(ExternalMxid, <<7, "chan1">>)}
          /\ \E ops \in [1..n -> {NoUserId, GhostA, RealUser}] :
                roomOps = {<<i, ops[i]>> : i \in {j \in 1..n : ops[j] # NoUserId}}
          /\ roomAliases = {<<i, "#alias">> : i \in 0..n}
          /\ ghostsInRoom = {<<i, g>> : i \in 0..n, g \in {GhostA, GhostB}}
          /\ joined = {<<i, u>> : i \in 0..n, u \in {BotUser, GhostA, GhostB}}

DeleteNext ==
    \/ \E puppetId \in PuppetIds : DeleteForPuppetCall(puppetId)
    \/ DeleteGetByPuppetId
    \/ \E hasClient \in BOOLEAN : DeleteGetRoomOp(hasClient)
    \/ DeleteCanonicalAlias
    \/ DeleteGetAliases
    \/ DeleteAlias
    \/ DeleteAliasFail
    \/ DeleteStoreDelete
    \/ DeleteGetJoinedRooms
    \/ DeleteGetJoinedRoomsFail
    \/ DeleteBotLeave
    \/ DeleteBotLeaveFail
    \/ DeleteGetGhosts
    \/ DeleteGhostUser
    \/ DeleteGhostLeave
    \/ DeleteGhostLeaveFail
    \/ DeleteEmptyGhosts

LeaveNext ==
    \/ \E p \in LeaveCalls, ghost \in Ghosts : LeaveCall(p, ghost)
    \/ \E p \in LeaveCalls : LeaveGetGhosts(p)
    \/ \E p \in LeaveCalls : LeaveNotOp(p)
    \/ \E p \in LeaveCalls, newOp \in Ghosts : LeaveIsOp(p, newOp)
    \/ \E p \in LeaveCalls : LeaveGetPowerLevels(p)
    \/ \E p \in LeaveCalls : LeaveSendPowerLevels(p)
    \/ \E p \in LeaveCalls : LeaveSetRoomOp(p)
    \/ \E p \in LeaveCalls : LeaveTransferFail(p)
    \/ \E p \in LeaveCalls : LeaveLeaveRoom(p)
    \/ \E p \in LeaveCalls : LeaveGhostFromRoom(p)
    \/ \E p \in LeaveCalls : LeaveFail(p)

\* maybeLeaveGhost called while no other maybeLeaveGhost call is running
LeaveCallSeq(p, ghost) ==
    /\ \A q \in LeaveCalls : leaveCalls[q].pc \in {"idle", "done", "thrown"}
    /\ LeaveCall(p, ghost)

LeaveSeqNext ==
    \/ \E p \in LeaveCalls, ghost \in Ghosts : LeaveCallSeq(p, ghost)
    \/ \E p \in LeaveCalls : LeaveGetGhosts(p)
    \/ \E p \in LeaveCalls : LeaveNotOp(p)
    \/ \E p \in LeaveCalls, newOp \in Ghosts : LeaveIsOp(p, newOp)
    \/ \E p \in LeaveCalls : LeaveGetPowerLevels(p)
    \/ \E p \in LeaveCalls : LeaveSendPowerLevels(p)
    \/ \E p \in LeaveCalls : LeaveSetRoomOp(p)
    \/ \E p \in LeaveCalls : LeaveTransferFail(p)
    \/ \E p \in LeaveCalls : LeaveLeaveRoom(p)
    \/ \E p \in LeaveCalls : LeaveGhostFromRoom(p)
    \/ \E p \in LeaveCalls : LeaveFail(p)

SpecUpload == UploadInit /\ [][UploadNext]_vars

\* a ghost with any stored room overrides, none of them applied yet
\* the remote room "!r1" is mapped and "!r2" is not; the ghost of the remote
\* user is mapped or not; an override is stored only for a mapped room and a
\* mapped ghost
OverrideInit ==
    /\ PuppetStart
    /\ mxidLock = [k \in RoomKeys |-> NoHolder]
    /\ roomStore = {[NewData(LeaveRoom, <<OverrideUser[1], "!r1">>) EXCEPT !.name = "a"]}
    /\ roomOps = {<<LeaveRoom, BotUser>>}
    /\ matrixRooms = {[mxid |-> LeaveRoom, key |-> <<OverrideUser[1], "!r1">>,
                       creator |-> BotUser]}
    /\ groupRooms = {}
    /\ roomCalls = [p \in RoomCalls |-> IdleCall]
    /\ groupSyncEnabled = TRUE
    /\ clientLock = [k \in UserKeys |-> NoHolder]
    /\ ghostNames = [k \in HookUserKeys |-> ""]
    /\ userCalls = [p \in UserCalls |-> IdleUserCall]
    /\ UploadStart
    /\ RedactStart
    /\ InfoStart
    /\ \E ghost \in {NoUser, [name |-> "a"]},
          override \in {NoUser} \cup {[name |-> n] : n \in Names} :
          /\ ghost = NoUser => override = NoUser
          /\ userStore = [k \in HookUserKeys |-> IF k = OverrideUser THEN ghost ELSE NoUser]
          /\ overrideStore = [r \in OverrideRooms |-> IF r = "!r1" THEN override ELSE NoUser]
    /\ memberNames = [r \in OverrideRooms |-> ""]
    /\ overrideCall = IdleOverrideCall

OverrideNext ==
    \/ \E roomId \in OverrideRooms, name \in Names : UpdateRoomOverrideCall(roomId, name)
    \/ OverrideGetRoomOverride
    \/ \E hasOrig \in BOOLEAN : OverrideProfile(hasOrig)
    \/ \E found \in BOOLEAN : OverrideGetOrig(found)
    \/ \E found \in BOOLEAN : OverrideMaybeGetMxid(found)
    \/ OverrideSendStateEvent
    \/ \E errcode \in ErrCodes : OverrideSendStateEventFail(errcode)
    \/ OverrideSetRoomOverride
    \/ OverrideFail

SpecOverride == OverrideInit /\ [][OverrideNext]_vars

\* one bridged room whose recorded operator is nobody, a ghost or a real account
RedactInit ==
    /\ PuppetStart
    /\ mxidLock = [k \in RoomKeys |-> NoHolder]
    /\ roomStore = {[NewData(LeaveRoom, <<3, "chan1">>) EXCEPT !.name = "a"]}
    /\ matrixRooms = {[mxid |-> LeaveRoom, key |-> <<3, "chan1">>, creator |-> BotUser]}
    /\ groupRooms = {}
    /\ groupSyncEnabled = TRUE
    /\ roomCalls = [p \in RoomCalls |-> IdleCall]
    /\ \E op \in {NoUserId, GhostA, RealUser} :
          roomOps = IF op = NoUserId THEN {} ELSE {<<LeaveRoom, op>>}
    /\ UserStart
    /\ UploadStart
    /\ OverrideStart
    /\ redacted = {}
    /\ redactCall = IdleRedactCall
    /\ InfoStart

RedactNext ==
    \/ \E client \in {BotUser, GhostB}, eventId \in EventIds : RedactEventCall(client, eventId)
    \/ RedactOk
    \/ \E errcode \in ErrCodes : RedactFail(errcode)
    \/ \E hasClient \in BOOLEAN : RedactGetRoomOp(hasClient)
    \/ RedactGetRoomOpFail
    \/ RedactOpOk
    \/ \E errcode \in ErrCodes : RedactOpFail(errcode)

SpecRedact == RedactInit /\ [][RedactNext]_vars

SpecDelete == DeleteInit /\ [][DeleteNext]_vars

\* one mapped room of puppet 3, with an alias, the bot and a ghost in it;
\* reconciliations of that room by getMxid(data, doCreate=false) run while
\* deleteForPuppet(3) runs
RaceCalls == 1..NumRaceCalls

RaceInit ==
    /\ mxidLock = [k \in RoomKeys |-> NoHolder]
    /\ roomStore = {[NewData(LeaveRoom, <<3, "chan1">>) EXCEPT !.name = "a"]}
    /\ roomOps \in {{}, {<<LeaveRoom, GhostA>>}}
    /\ matrixRooms = {[mxid |-> LeaveRoom, key |-> <<3, "chan1">>, creator |-> BotUser]}
    /\ groupRooms = {}
    /\ groupSyncEnabled = FALSE
    /\ roomCalls = [p \in RaceCalls |-> IdleCall]
    /\ clientLock = [k \in UserKeys |-> NoHolder]
    /\ userStore = [k \in UserKeys |-> [name |-> "a"]]
    /\ ghostNames = [k \in UserKeys |-> "a"]
    /\ userCalls = [p \in UserCalls |-> IdleUserCall]
    /\ UploadStart
    /\ OverrideStart
    /\ RedactStart
    /\ InfoStart
    /\ powerUsers = {}
    /\ leaveCalls = [p \in LeaveCalls |-> IdleLeaveCall]
    /\ deleteCall = IdleDeleteCall
    /\ roomAliases = {<<LeaveRoom, "#alias">>}
    /\ ghostsInRoom = {<<LeaveRoom, GhostA>>}
    /\ joined = {<<LeaveRoom, u>> : u \in {BotUser, GhostA}}

RaceNext ==
    \/ \E p \in RaceCalls, key \in RoomKeys, name \in Names :
          GetMxidCall(p, key, BotUser, name, NoGroup, FALSE)
    \/ \E p \in RaceCalls : GetMxidSet(p)
    \/ \E p \in RaceCalls : GetMxidFail(p)
    \/ \E p \in RaceCalls : GetMxidNotCreated(p)
    \/ \E p \in RaceCalls, room \in roomStore : GetMxidFound(p, room)
    \/ \E p \in RaceCalls : GetMxidGetRoomOp(p)
    \/ \E p \in RaceCalls : GetMxidProfileOld(p)
    \/ \E p \in RaceCalls : GetMxidSendName(p)
    \/ \E p \in RaceCalls : GetMxidStore(p)
    \/ DeleteForPuppetCall(3)
    \/ DeleteGetByPuppetId
    \/ \E hasClient \in BOOLEAN : DeleteGetRoomOp(hasClient)
    \/ DeleteCanonicalAlias
    \/ DeleteGetAliases
    \/ DeleteAlias
    \/ DeleteAliasFail
    \/ DeleteStoreDelete
    \/ DeleteGetJoinedRooms
    \/ DeleteGetJoinedRoomsFail
    \/ DeleteBotLeave
    \/ DeleteBotLeaveFail
    \/ DeleteGetGhosts
    \/ DeleteGhostUser
    \/ DeleteGhostLeave
    \/ DeleteGhostLeaveFail
    \/ DeleteEmptyGhosts

SpecRace == RaceInit /\ [][RaceNext]_vars

\* getRoomOp returned null for a stored operator outside the namespace (its
\* token gave no client): the client of the call is kept
GetMxidGetRoomOpNoClient(p) ==
    /\ roomCalls[p].pc = "getRoomOp"
    /\ roomCalls[p].op = "getMxid"
    /\ GetRoomOp(roomCalls[p].mxid) \notin Ghosts \cup {BotUser, NoUserId}
    /\ roomCalls' = [roomCalls EXCEPT ![p].pc = "profileOld"]
    /\ UNCHANGED <<mxidLock, roomStore, roomOps, matrixRooms,
                   groupRooms, groupSyncEnabled>>
    /\ UNCHANGED notRoomVars

\* the m.room.name state write rejects
GetMxidSendNameFail(p) ==
    /\ roomCalls[p].pc = "sendName"
    /\ GetMxidFail(p)

\* getMxid called while no other call is running
GetMxidCallSeq(p, key, client, name, groupId, doCreate) ==
    /\ \A q \in DOMAIN roomCalls : roomCalls[q].pc \in {"idle", "done", "thrown"}
    /\ GetMxidCall(p, key, client, name, groupId, doCreate)

\* one mapped room named "a" whose operator is nobody, a ghost or a real
\* account; getMxid(data, client, doCreate=false) calls observe the name "a"
\* or "b" and are made one after the other, with the bot's client (none
\* passed) or a ghost's; of the collaborators only the name state write may fail
ReconcileCalls == 1..NumReconcileCalls

ReconcileClients == {BotUser, GhostB}

ReconcileInit ==
    /\ PuppetStart
    /\ mxidLock = [k \in RoomKeys |-> NoHolder]
    /\ roomStore = {[NewData(LeaveRoom, <<3, "chan1">>) EXCEPT !.name = "a"]}
    /\ roomOps \in {{}, {<<LeaveRoom, GhostA>>}, {<<LeaveRoom, RealUser>>}}
    /\ matrixRooms = {[mxid |-> LeaveRoom, key |-> <<3, "chan1">>, creator |-> BotUser]}
    /\ groupRooms = {}
    /\ groupSyncEnabled = FALSE
    /\ roomCalls = [p \in ReconcileCalls |-> IdleCall]
    /\ UserStart
    /\ UploadStart
    /\ OverrideStart
    /\ RedactStart
    /\ InfoStart

ReconcileNext ==
    \/ \E p \in ReconcileCalls, key \in RoomKeys, client \in ReconcileClients, name \in Names :
          GetMxidCallSeq(p, key, client, name, NoGroup, FALSE)
    \/ \E p \in ReconcileCalls : GetMxidSet(p)
    \/ \E p \in ReconcileCalls, room \in roomStore : GetMxidFound(p, room)
    \/ \E p \in ReconcileCalls : GetMxidGetRoomOp(p)
    \/ \E p \in ReconcileCalls : GetMxidGetRoomOpNoClient(p)
    \/ \E p \in ReconcileCalls : GetMxidProfileOld(p)
    \/ \E p \in ReconcileCalls : GetMxidSendName(p)
    \/ \E p \in ReconcileCalls : GetMxidSendNameFail(p)
    \/ \E p \in ReconcileCalls : GetMxidStore(p)

SpecReconcile == ReconcileInit /\ [][ReconcileNext]_vars

SpecLeaveSeq == LeaveInit /\ [][LeaveSeqNext]_vars

SpecLeave == LeaveInit /\ [][LeaveNext]_vars

\* ------------------------------------------------------------ room claims
\* a call is between `mxidLock.set(lockKey)` and `mxidLock.release(lockKey)`
InRoomCS(c) ==
    \/ c.op = "getMxid" /\ c.pc \in {"getByRemote", "hook", "profileNew", "createRoom",
                                     "setRoomOp", "getRoomOp", "profileOld", "sendName",
                                     "store"}
    \/ c.op = "insert" /\ c.pc = "store"

\* C1: when all the calls are getMxid(doCreate=true) for the same key on an
\* empty store and all of them returned, exactly one createRoom call was made,
\* all returned the same mxid and exactly one mapping is persisted for the key.
C1_SingleCreation ==
    (\A p \in RoomCalls : /\ roomCalls[p].op = "getMxid"
                          /\ roomCalls[p].doCreate
                          /\ roomCalls[p].pc = "done")
    => /\ Cardinality(matrixRooms) = 1
       /\ \A p, q \in RoomCalls : roomCalls[p].ret.mxid = roomCalls[q].ret.mxid
       /\ \A k \in RoomKeys : Cardinality(GetByRemote(k)) = 1

\* C3: at most one getMxid or insert call per lock key is between its lock
\* set and its lock release.
C3_MutualExclusion ==
    \A k \in RoomKeys :
        Cardinality({p \in RoomCalls : roomCalls[p].key = k /\ InRoomCS(roomCalls[p])}) <= 1

\* C4: a getMxid call that is past its critical section (running the deferred
\* group update, returned, or thrown) is not the registered holder of its key.
C4_ReleasedOnExit ==
    \A p \in RoomCalls :
        (roomCalls[p].op = "getMxid"
            /\ roomCalls[p].pc \in {"removeGroup", "addGroup", "done", "thrown"})
        => mxidLock[roomCalls[p].key] # p

\* C4 witness: one getMxid call threw, another returned "not created", and no
\* key is held.
C4_Witness ==
    /\ \E p \in RoomCalls : roomCalls[p].op = "getMxid" /\ roomCalls[p].pc = "thrown"
    /\ \E p \in RoomCalls : /\ roomCalls[p].op = "getMxid" /\ roomCalls[p].pc = "done"
                            /\ ~roomCalls[p].doCreate /\ roomCalls[p].ret.mxid = -1
    /\ \A k \in RoomKeys : ~LockHeld(mxidLock, k)

\* C12: when no call is running, every persisted operator record belongs to a
\* persisted room mapping, and no key has more than one target-side room.
C12_NoPartialMapping ==
    (\A p \in RoomCalls : roomCalls[p].pc \in {"idle", "done", "thrown"})
    => /\ \A o \in roomOps : \E r \in roomStore : r.mxid = o[1]
       /\ \A k \in RoomKeys : Cardinality({m \in matrixRooms : m.key = k}) <= 1

\* C13: the step of a getMxid(doCreate=false) call that finds no mapping ends
\* the call (returning the empty id with created=false, unless the lookup
\* itself failed), leaves the key unlocked, and changes no store, no
\* target-side room and no group association; the hook is never reached.
C13_NotCreatedNoEffect ==
    [][\A p \in RoomCalls :
          (/\ roomCalls[p].op = "getMxid"
           /\ roomCalls[p].pc = "getByRemote"
           /\ ~roomCalls[p].doCreate
           /\ GetByRemote(roomCalls[p].key) = {}
           /\ roomCalls'[p] # roomCalls[p])
          => /\ \/ roomCalls'[p].pc = "thrown"
                \/ /\ roomCalls'[p].pc = "done"
                   /\ roomCalls'[p].ret = [mxid |-> -1, created |-> FALSE]
             /\ mxidLock'[roomCalls[p].key] = NoHolder
             /\ UNCHANGED <<roomStore, roomOps, matrixRooms, groupRooms>>]_vars

\* C13 witness: a getMxid(doCreate=false) call returned "not created" and the
\* key has neither a mapping nor a target-side room.
C13_Witness ==
    \E p \in RoomCalls :
        /\ roomCalls[p].op = "getMxid" /\ roomCalls[p].pc = "done"
        /\ ~roomCalls[p].doCreate
        /\ roomCalls[p].ret = [mxid |-> -1, created |-> FALSE]
        /\ GetByRemote(roomCalls[p].key) = {}
        /\ matrixRooms = {}
        /\ ~LockHeld(mxidLock, roomCalls[p].key)

\* C14: the step of a getMxid call on an existing mapping whose reconciler diff
\* is empty and whose group id is absent or unchanged ends the call: no state
\* write and no store write is started, nothing persisted or on the target
\* side changes, and the call returns the stored mxid with created=false.
C14_UnchangedNoWrites ==
    [][\A p \in RoomCalls :
          LET c == roomCalls[p] IN
          (/\ c.op = "getMxid"
           /\ c.pc = "profileOld"
           /\ ~ProcessProfileUpdate(c.room, c.name).hasName
           /\ (c.groupId = NoGroup \/ c.groupId = c.room.groupId)
           /\ roomCalls'[p] # c)
          => /\ \/ roomCalls'[p].pc = "thrown"
                \/ /\ roomCalls'[p].pc = "done"
                   /\ roomCalls'[p].ret = [mxid |-> c.room.mxid, created |-> FALSE]
             /\ UNCHANGED <<roomStore, roomOps, matrixRooms, groupRooms>>]_vars

\* C14 witness: the first call created the room with name "a" and no group,
\* the second one returned the same mxid with created=false, and the stored
\* entry still is the one the first call wrote.
C14_Witness ==
    /\ roomCalls[1].op = "getMxid" /\ roomCalls[1].pc = "done"
    /\ roomCalls[1].ret.created
    /\ roomCalls[2].op = "getMxid" /\ roomCalls[2].pc = "done"
    /\ roomCalls[2].ret = [mxid |-> roomCalls[1].ret.mxid, created |-> FALSE]
    /\ roomStore = {[NewData(roomCalls[1].ret.mxid, roomCalls[1].key) EXCEPT !.name = "a"]}

\* C16: a maybeGet call suspended in wait() behind a getMxid call that is the
\* registered holder of the key resumes only when that call is out of its
\* critical section; and a maybeGet call never returns null once a getMxid
\* call for the key has returned a created room.
C16_LookupWaitsForCreation ==
    [][\A p \in LookupCalls :
          LET c == roomCalls[p] IN
          /\ (c.op = "maybeGet" /\ c.pc = "blocked" /\ roomCalls'[p].pc = "woken")
             => \A q \in LookupCalls :
                   (mxidLock[c.key] = q /\ roomCalls[q].op = "getMxid")
                   => ~InRoomCS(roomCalls'[q])
          /\ (c.op = "maybeGet" /\ c.pc = "woken" /\ roomCalls'[p].pc = "done"
                /\ roomCalls'[p].ret.mxid = -1)
             => ~\E q \in LookupCalls :
                   /\ roomCalls[q].op = "getMxid" /\ roomCalls[q].key = c.key
                   /\ roomCalls[q].pc = "done" /\ roomCalls[q].ret.created]_vars

\* C17: an insert call that has thrown is not the registered holder of its key.
C17_InsertReleasesOnError ==
    \A p \in RoomCalls :
        (roomCalls[p].op = "insert" /\ roomCalls[p].pc = "thrown")
        => mxidLock[roomCalls[p].key] # p

\* ------------------------------------------------------------ user claims
\* C2: when all the calls are getClient for the same ghost key (no double
\* puppeting) on an empty user store and all of them returned, exactly one of
\* them ran the first-sight branch and the key has a UserStoreEntry.
C2_SingleFirstSight ==
    \A k \in UserKeys :
        (\A p \in UserCalls : /\ userCalls[p].key = k
                              /\ userCalls[p].pc = "done"
                              /\ userCalls[p].ret = "ghost")
        => /\ Cardinality({p \in UserCalls : userCalls[p].firstSight}) = 1
           /\ userStore[k] # NoUser

\* C15: a getClient call returns the puppet's own client only for the
\* puppet's own remote user id, in the step that follows the provisioner
\* lookup, before the wait on the ghost lock; that step changes neither the
\* lock, the user store nor the ghost's profile, no background profile write
\* is started, and the call never is the holder of the key.
C15_DoublePuppet ==
    /\ [](\A p \in UserCalls :
            userCalls[p].ret = "puppet"
            => /\ userCalls[p].key[2] = PuppetUserId
               /\ ~userCalls[p].firstSight
               /\ userCalls[p].bg = "none"
               /\ clientLock[userCalls[p].key] # p)
    /\ [][\A p \in UserCalls :
            (userCalls'[p].ret = "puppet" /\ userCalls[p].ret # "puppet")
            => /\ userCalls[p].pc = "provisioner"
               /\ userCalls'[p].pc = "done"
               /\ UNCHANGED <<clientLock, userStore, ghostNames>>]_vars

\* C15 witness: a call for the puppet's own user id returned the puppet's
\* client while the key has no ghost mapping and no holder.
C15_Witness ==
    \E p \in UserCalls :
        /\ userCalls[p].pc = "done" /\ userCalls[p].ret = "puppet"
        /\ userStore[userCalls[p].key] = NoUser
        /\ ~LockHeld(clientLock, userCalls[p].key)

\* C35: when no getClient call is running and no profile write is in flight,
\* the target-side display name of every ghost with a UserStoreEntry is the
\* name persisted in that entry.
C35_ProfileMatchesStore ==
    (\A p \in DOMAIN userCalls : /\ userCalls[p].pc \in {"idle", "done", "thrown"}
                                  /\ userCalls[p].bg # "pending")
    => \A k \in DOMAIN userStore :
          userStore[k] # NoUser => ghostNames[k] = userStore[k].name

\* ---------------------------------------------------------- upload claims
\* C5: an uploadContent call that returned or threw is the registered holder
\* of none of the fingerprint locks.
C5_AllLocksReleased ==
    \A p \in UploadCalls :
        uploadCalls[p].pc \in {"done", "thrown"}
        => \A k \in Fingerprints : mxcLookupLock[k] # p

\* C6: the calls all refer to the same content (both locators serve the bytes
\* of the buffer); as long as none of them failed, the transport upload was
\* invoked at most once and the calls that returned agree on the reference.
C6_SingleUpload ==
    (\A p \in UploadCalls : uploadCalls[p].pc # "thrown")
    => /\ uploadCount <= 1
       /\ \A p, q \in UploadCalls :
             (uploadCalls[p].pc = "done" /\ uploadCalls[q].pc = "done")
             => uploadCalls[p].ret = uploadCalls[q].ret

\* C7: when a call looks up the digest of its bytes and a reference is stored
\* for it, the call returns that reference, having made no transport upload
\* and no store write, and the step changes neither the store nor the number
\* of uploads.
C7_DigestHit ==
    [][\A p \in UploadCalls :
          LET c == uploadCalls[p]
              stored == fileStore[HashBuffer(c.buffer)]
          IN (/\ c.pc = "digestLookup"
              /\ stored # NoMxc
              /\ uploadCalls'[p].pc \notin {"digestLookup", "thrown"})
             => /\ uploadCalls'[p].pc = "done"
                /\ uploadCalls'[p].ret = stored
                /\ uploadCalls'[p].uploads = 0
                /\ uploadCalls'[p].writes = 0
                /\ fileStore' = fileStore
                /\ uploadCount' = uploadCount]_vars

\* C7 witness: a call given the raw bytes returned a reference without having
\* uploaded anything, after another call had uploaded them.
C7_Witness ==
    /\ uploadCount = 1
    /\ \E p \in UploadCalls : /\ uploadCalls[p].pc = "done"
                              /\ uploadCalls[p].thing \in Buffers
                              /\ uploadCalls[p].uploads = 0
                              /\ uploadCalls[p].writes = 0
                              /\ uploadCalls[p].ret = fileStore[HashBuffer(uploadCalls[p].thing)]
                              /\ uploadCalls[p].ret # NoMxc

\* C33: a call given a locator that missed on the locator and on the digest
\* goes from the transport upload to the two store writes: the first puts
\* the new reference under the locator, the second puts it under the digest
\* of the bytes and the call returns that reference; and a call that finds a
\* reference stored under the digest of its bytes returns it, the number of
\* uploads unchanged.
C33_StoredUnderLocatorAndDigest ==
    [][\A p \in UploadCalls :
          LET c == uploadCalls[p]
              d == uploadCalls'[p]
          IN (c.thing \in Locators /\ d # c /\ d.pc # "thrown")
             => /\ c.pc = "upload" => d.pc = "storeLocator" /\ d.mxcUrl # NoMxc
                /\ c.pc = "storeLocator"
                   => /\ d.pc = "storeDigest"
                      /\ fileStore'[c.thing] = c.mxcUrl
                /\ c.pc = "storeDigest"
                   => /\ d.pc = "done"
                      /\ d.ret = c.mxcUrl
                      /\ fileStore'[HashBuffer(DownloadFile(c.thing))] = c.mxcUrl
                /\ (c.pc = "digestLookup" /\ fileStore[HashBuffer(DownloadFile(c.thing))] # NoMxc)
                   => /\ d.pc = "done"
                      /\ d.ret = fileStore[HashBuffer(DownloadFile(c.thing))]
                      /\ d.uploads = 0
                      /\ uploadCount' = uploadCount]_vars

\* C33 witness: one upload was made, by a call given the first locator, and a
\* call given the second locator returned the same reference without
\* uploading; the reference is stored under the first locator and the digest.
C33_Witness ==
    /\ uploadCount = 1
    /\ \E p, q \in UploadCalls :
          /\ uploadCalls[p].pc = "done"
          /\ uploadCalls[p].thing = "http://a"
          /\ uploadCalls[p].uploads = 1
          /\ uploadCalls[p].writes = 2
          /\ uploadCalls[q].pc = "done"
          /\ uploadCalls[q].thing = "http://b"
          /\ uploadCalls[q].uploads = 0
          /\ uploadCalls[q].ret = uploadCalls[p].ret
          /\ fileStore["http://a"] = uploadCalls[p].ret
          /\ fileStore[HashBuffer(DownloadFile("http://b"))] = uploadCalls[p].ret

\* C34: a call given a locator that has returned left the locator mapped to
\* the reference it returned.
C34_LocatorMappedAfterSuccess ==
    \A p \in UploadCalls :
        (uploadCalls[p].pc = "done" /\ uploadCalls[p].thing \in Locators)
        => fileStore[uploadCalls[p].thing] = uploadCalls[p].ret

\* ----------------------------------------------------------- leave claims
\* the call is the latest one made, and it left the room as its operator
LeftAsOp(p) ==
    /\ leaveCalls[p].pc = "done"
    /\ leaveCalls[p].oldOp = leaveCalls[p].ghost
    /\ Len(leaveCalls[p].log) = 4
    /\ \A q \in LeaveCalls : q > p => leaveCalls[q].pc = "idle"

\* C9: (calls made one after the other) a call for the only ghost of the room
\* changes nothing; a call for the operator ghost reaches leaveRoom only with
\* the new operator's power level written and the new operator persisted, in
\* that order before leaveRoom, and when it has returned the persisted
\* operator is the new ghost, which is still in the room.
C9_OperatorHandOff ==
    /\ [](\A p \in LeaveCalls :
            LET c == leaveCalls[p] IN
            /\ (c.pc = "leaveRoom" /\ c.oldOp = c.ghost)
               => /\ GetRoomOp(LeaveRoom) = c.newOp
                  /\ <<LeaveRoom, c.newOp>> \in powerUsers
                  /\ c.log = <<"sendPowerLevels", "setRoomOp">>
            /\ LeftAsOp(p)
               => /\ GetRoomOp(LeaveRoom) = c.newOp
                  /\ c.newOp \in GhostsInRoom(LeaveRoom)
                  /\ c.newOp # c.ghost
                  /\ c.log = <<"sendPowerLevels", "setRoomOp", "leaveRoom",
                               "leaveGhostFromRoom">>)
    /\ [][\A p \in LeaveCalls :
            (/\ leaveCalls[p].pc = "getGhosts"
             /\ GhostsInRoom(LeaveRoom) = {leaveCalls[p].ghost}
             /\ leaveCalls'[p] # leaveCalls[p])
            => /\ leaveCalls'[p].pc \in {"done", "thrown"}
               /\ leaveCalls'[p].log = <<>>
               /\ UNCHANGED <<roomVars, puppetVars>>]_vars

\* C9 witness: the operator ghost left after handing over to the ghost that is
\* now the persisted operator.
C9_Witness ==
    \E p \in LeaveCalls :
        /\ LeftAsOp(p)
        /\ GetRoomOp(LeaveRoom) = leaveCalls[p].newOp
        /\ <<LeaveRoom, leaveCalls[p].ghost>> \notin joined

\* C10: the room's recorded ghost set is never empty.
C10_GhostAnchor == GhostsInRoom(LeaveRoom) # {}

\* C11: the account persisted as the room's operator is joined to the room.
C11_OperatorJoined ==
    \A o \in roomOps : o[1] = LeaveRoom => o \in joined

\* ------------------------------------------------------------- wait claims
\* C21: every getMxid, getClient and uploadContent call suspended in wait(key)
\* eventually enters its critical section, whether the holder releases the
\* key or never responds again.
C21_WaitReturns ==
    /\ \A p \in WaitCalls :
          (roomCalls[p].pc = "blocked") ~> (roomCalls[p].pc \notin {"blocked", "woken"})
    /\ \A p \in WaitCalls :
          (userCalls[p].pc = "blocked") ~> (userCalls[p].pc \notin {"blocked", "woken"})
    /\ \A p \in WaitCalls :
          (uploadCalls[p].pc = "blocked") ~> (uploadCalls[p].pc \notin {"blocked", "woken"})

\* C21 witness: a getClient call that was suspended in wait(key) holds the key
\* and is inside its critical section.
C21_Witness ==
    \E p \in DOMAIN userCalls :
        /\ userCalls[p].waited
        /\ userCalls[p].pc = "userStoreGet"
        /\ clientLock[userCalls[p].key] = p

\* ------------------------------------------------------ bridge info claims
\* C22: an updateBridgeInformation call that returned sent no state event when
\* the remote room had no mapping or no operator client was resolved, and
\* exactly one m.bridge state event, to the mapped room, when both existed; no
\* call sends more than one.
C22_BridgeInfoEvents ==
    LET sent == Len(bridgeEvents) - bridgeCall.before IN
    /\ sent \in {0, 1}
    /\ (bridgeCall.pc = "done" /\ (bridgeCall.room = NoRoom \/ bridgeCall.client = NoUserId))
       => sent = 0
    /\ (bridgeCall.pc = "done" /\ bridgeCall.room # NoRoom /\ bridgeCall.client # NoUserId)
       => /\ sent = 1
          /\ bridgeEvents[Len(bridgeEvents)].type = "m.bridge"
          /\ bridgeEvents[Len(bridgeEvents)].mxid = bridgeCall.room.mxid
          /\ bridgeCall.room \in roomStore
    /\ bridgeCall.pc = "thrown" /\ (bridgeCall.room = NoRoom \/ bridgeCall.client = NoUserId)
       => sent = 0

\* C22 witness: a second call on a mapped room with an operator client
\* returned after sending its one event.
C22_Witness ==
    /\ bridgeCall.pc = "done"
    /\ bridgeCall.room # NoRoom
    /\ bridgeCall.client # NoUserId
    /\ bridgeCall.before = 1
    /\ Len(bridgeEvents) = bridgeCall.before + 1

\* ------------------------------------------------------------ parts claims
\* the suffix is one or more digits, an underscore and a rest
MatchesDigitsUnderscoreRest(suffix) ==
    \E i \in 2..Len(suffix) :
        suffix[i] = "_" /\ \A j \in 1..(i - 1) : IsDigit(suffix[j])

\* C23: getPartsFromMxid of a "!" identifier returns the stored pair exactly
\* when a mapping with that mxid exists; of an alias outside the namespace or
\* whose suffix is not digits, underscore, rest it returns null, and otherwise
\* the number and the unescaped rest; the alias derived at creation for
\* (puppetId, roomId) parses back to that pair.
C23_PartsFromMxid ==
    LET c == partsCall
        rooms == {r \in roomStore : RoomIdString(r.mxid) = c.mxid}
    IN c.pc = "done" =>
       /\ (Len(c.mxid) > 0 /\ c.mxid[1] = "!")
          => /\ c.ret.found <=> rooms # {}
             /\ \A r \in rooms : c.ret.puppetId = r.key[1] /\ c.ret.roomId = r.key[2]
       /\ (Len(c.mxid) > 0 /\ c.mxid[1] = ForeignPrefix) => ~c.ret.found
       /\ (Len(c.mxid) > 0 /\ c.mxid[1] = AliasPrefix)
          => LET suffix == SubSeq(c.mxid, 2, Len(c.mxid) - 1) IN
             /\ c.ret.found <=> MatchesDigitsUnderscoreRest(suffix)
             /\ c.ret.found
                => \E i \in 2..Len(suffix) :
                      /\ suffix[i] = "_"
                      /\ \A j \in 1..(i - 1) : IsDigit(suffix[j])
                      /\ NumberToString(c.ret.puppetId) = SubSeq(suffix, 1, i - 1)
                      /\ c.ret.roomId = Mxid2Str(SubSeq(suffix, i + 1, Len(suffix)))
       /\ c.created
          => /\ c.ret.found
             /\ c.ret.puppetId = c.puppetId
             /\ c.ret.roomId = c.roomId

\* C23 witness: the alias created for puppet 37 and a room id with an
\* upper-case letter and an underscore was parsed back.
C23_Witness ==
    /\ partsCall.pc = "done"
    /\ partsCall.created
    /\ partsCall.puppetId = 37
    /\ partsCall.roomId = <<"A", "_">>
    /\ partsCall.ret.found

\* ------------------------------------------------------------- hook claims
\* C20: in getMxid and getClient the data in use always carries the requested
\* (puppetId, remoteId) pair, which is the lock key: the entry a call builds,
\* every persisted room mapping, every created room and every persisted ghost
\* mapping is keyed by the pair some call was made with.
C20_HookPairKept ==
    /\ \A p \in DOMAIN roomCalls :
          /\ roomCalls[p].dataKey = roomCalls[p].key
          /\ roomCalls[p].room # NoRoom => roomCalls[p].room.key = roomCalls[p].key
    /\ \A r \in roomStore :
          \E p \in DOMAIN roomCalls : roomCalls[p].op = "getMxid" /\ roomCalls[p].key = r.key
    /\ \A m \in matrixRooms :
          \E p \in DOMAIN roomCalls : roomCalls[p].op = "getMxid" /\ roomCalls[p].key = m.key
    /\ \A p \in DOMAIN userCalls : userCalls[p].dataKey = userCalls[p].key
    /\ \A k \in DOMAIN userStore :
          userStore[k] # NoUser
          => \E p \in DOMAIN userCalls : userCalls[p].pc # "idle" /\ userCalls[p].key = k

\* C20 witness: a getMxid whose hook answer was rejected persisted the mapping
\* with the original name under the requested pair, and a getClient whose hook
\* answer was adopted persisted the ghost with the hook's name under the
\* requested pair.
C20_Witness ==
    /\ \E p \in DOMAIN roomCalls :
          /\ roomCalls[p].pc = "done"
          /\ roomCalls[p].ret.created
          /\ roomStore = {[NewData(roomCalls[p].ret.mxid, roomCalls[p].key) EXCEPT !.name = "a"]}
    /\ \E q \in DOMAIN userCalls :
          /\ userCalls[q].pc = "done"
          /\ userStore[userCalls[q].key] = [name |-> "b"]

\* --------------------------------------------------------- override claims
\* C18 (as stated): after a permission-denied failure of the membership state
\* write the override is persisted, and after any other failure of that write
\* updateRoomOverride does not return normally (the error reaches its caller).
C18_OtherFailurePropagates ==
    /\ (overrideCall.pc = "done" /\ overrideCall.failure = "M_FORBIDDEN")
       => overrideStore[overrideCall.roomId] = overrideCall.user
    /\ overrideCall.failure \in {"M_UNKNOWN", "nobody"} => overrideCall.pc # "done"

\* C18 (amended): after a permission-denied failure of the membership state
\* write the override is persisted with the new name; after any other failure
\* of that write updateRoomOverride has returned normally, the error being
\* logged, and the stored override is the one read at the start of the call.
C18_OtherFailureLogged ==
    /\ (overrideCall.pc = "done" /\ overrideCall.failure = "M_FORBIDDEN")
       => /\ overrideStore[overrideCall.roomId] = overrideCall.user
          /\ overrideCall.user = [name |-> overrideCall.name]
    /\ overrideCall.failure \in {"M_UNKNOWN", "nobody"}
       => /\ overrideCall.pc = "done"
          /\ overrideStore[overrideCall.roomId] = overrideCall.before
          /\ overrideCall.before # [name |-> overrideCall.name]

\* C18 witness: the state write failed with an errcode other than M_FORBIDDEN,
\* the call returned and the new name is not persisted.
C18_Witness ==
    /\ overrideCall.pc = "done"
    /\ overrideCall.failure = "M_UNKNOWN"
    /\ overrideStore[overrideCall.roomId] # [name |-> overrideCall.name]

\* C24: every persisted room override of the remote user has a persisted room
\* mapping for its room and a persisted ghost mapping for the user.
C24_OverrideHasParents ==
    \A roomId \in OverrideRooms :
        overrideStore[roomId] # NoUser
        => /\ GetByRemote(<<OverrideUser[1], roomId>>) # {}
           /\ userStore[OverrideUser] # NoUser

\* ----------------------------------------------------------- redact claims
\* C19: redactEvent makes at most two attempts; the second is made only after
\* M_FORBIDDEN and by the room's recorded operator; a failure other than
\* M_FORBIDDEN is thrown after one attempt; with M_FORBIDDEN and no operator
\* client the original error is thrown after one attempt; when the operator's
\* attempt fails its error is thrown; a call that returned redacted the event.
C19_RedactRetry ==
    LET c == redactCall IN
    /\ Len(c.attempts) <= 2
    /\ Len(c.attempts) = 2
       => /\ c.firstErr = "M_FORBIDDEN"
          /\ c.attempts[2] = GetRoomOp(LeaveRoom)
          /\ c.attempts[2] # NoUserId
    /\ (c.pc = "thrown" /\ c.firstErr # "M_FORBIDDEN")
       => /\ Len(c.attempts) = 1
          /\ c.from = "client"
          /\ c.err = IF c.firstErr = "nobody" THEN "TypeError" ELSE c.firstErr
    /\ (c.pc = "thrown" /\ c.firstErr = "M_FORBIDDEN" /\ Len(c.attempts) = 1)
       => \/ c.from = "client" /\ c.err = "M_FORBIDDEN"
          \/ c.from = "getRoomOp"
    /\ (c.pc = "thrown" /\ Len(c.attempts) = 2) => c.from = "op"
    /\ c.pc = "done" => c.eventId \in redacted

\* C19 witness: the first attempt was denied, the operator's attempt failed
\* as well, and that error was thrown.
C19_Witness ==
    /\ redactCall.pc = "thrown"
    /\ Len(redactCall.attempts) = 2
    /\ redactCall.firstErr = "M_FORBIDDEN"
    /\ redactCall.from = "op"
    /\ redactCall.eventId \notin redacted

\* ---------------------------------------------------- group update claims
\* C29: getMxid reaches removeRoomFromGroup or addRoomToGroup only with group
\* sync enabled, in the step that stores the mapping with the new group id and
\* releases the lock of the key, and only with a group id of the observed data
\* that differs from the one the call found (none on creation); the group
\* associations change in no other step than the return of these two calls.
C29_GroupUpdateAfterRelease ==
    [][/\ \A p \in DOMAIN roomCalls :
             LET c == roomCalls[p]
                 d == roomCalls'[p]
             IN (/\ d.op = "getMxid"
                 /\ d.pc \in {"removeGroup", "addGroup"}
                 /\ c.pc \notin {"removeGroup", "addGroup"})
                => /\ groupSyncEnabled
                   /\ c.pc = "store"
                   /\ mxidLock'[c.key] = NoHolder
                   /\ \E r \in roomStore' : /\ r.mxid = d.mxid
                                             /\ r.groupId = d.addGroup
                   /\ d.addGroup = c.groupId
                   /\ d.addGroup # NoGroup
                   /\ d.removeGroup # d.addGroup
                   /\ c.created => d.removeGroup = NoGroup
                   /\ d.pc = "removeGroup" <=> d.removeGroup # NoGroup
       /\ groupRooms' # groupRooms
          => \E p \in DOMAIN roomCalls :
                /\ roomCalls[p].pc \in {"removeGroup", "addGroup"}
                /\ roomCalls'[p] # roomCalls[p]]_vars

\* C29 witness: a call that found the room in group g1 and observed g2 is
\* about to remove it from g1; the mapping with g2 is stored and the lock of
\* the key is free.
C29_Witness ==
    \E p \in DOMAIN roomCalls :
        /\ roomCalls[p].pc = "removeGroup"
        /\ ~roomCalls[p].created
        /\ roomCalls[p].removeGroup = "g1"
        /\ roomCalls[p].addGroup = "g2"
        /\ mxidLock[roomCalls[p].key] = NoHolder
        /\ \E r \in roomStore : r.mxid = roomCalls[p].mxid /\ r.groupId = "g2"

\* ------------------------------------------- background profile claims
\* C28: a getClient call on the ghost path has a setDisplayName call in flight
\* only after it released the lock of the ghost key, and every write of the
\* user store is made while the lock of the written key is held.
C28_ProfileWritesAfterRelease ==
    /\ [](\A p \in DOMAIN userCalls :
             userCalls[p].bg = "pending"
             => userCalls[p].pc \notin {"userStoreGet", "hook", "ensureRegistered",
                                        "profile", "store"})
    /\ [][\A k \in DOMAIN userStore :
             userStore'[k] # userStore[k]
             => k \in DOMAIN clientLock /\ clientLock[k] # NoHolder]_vars

\* -------------------------------------------------- deferred group claims
\* C27: when the group update that getMxid makes after its release fails, the
\* release in the error handler leaves the lock of the key as it is whenever
\* another call has registered as holder in between.
C27_FailedGroupUpdateKeepsLock ==
    [][\A p \in DOMAIN roomCalls :
          (/\ roomCalls[p].op = "getMxid"
           /\ roomCalls[p].pc \in {"removeGroup", "addGroup"}
           /\ roomCalls'[p].pc = "thrown"
           /\ mxidLock[roomCalls[p].key] # NoHolder)
          => mxidLock'[roomCalls[p].key] = mxidLock[roomCalls[p].key]]_vars

\* ------------------------------------------------- failed hand-off claims
\* C30: a maybeLeaveGhost call that is in the operator hand-off never throws
\* from there, and when it ends there (a call of the hand-off failed) it has
\* made no leaveRoom call and the step leaves the recorded ghost set, the
\* memberships and the persisted operator as they were.
C30_FailedHandOffAbortsLeave ==
    [][\A p \in LeaveCalls :
          LET c == leaveCalls[p]
              d == leaveCalls'[p]
          IN (c.pc \in {"getPowerLevels", "sendPowerLevels", "setRoomOp"} /\ d # c)
             => /\ d.pc \in {"sendPowerLevels", "setRoomOp", "leaveRoom", "done"}
                /\ d.pc = "done"
                   => /\ \A i \in 1..Len(d.log) : d.log[i] # "leaveRoom"
                      /\ UNCHANGED <<ghostsInRoom, joined, roomOps>>]_vars

\* C30 witness: a call for the operator ghost ended after the power levels
\* were written and the write of the operator failed; the ghost is still in
\* the room and still the persisted operator.
C30_Witness ==
    \E p \in LeaveCalls :
        /\ leaveCalls[p].pc = "done"
        /\ leaveCalls[p].oldOp = leaveCalls[p].ghost
        /\ leaveCalls[p].log = <<"sendPowerLevels">>
        /\ <<LeaveRoom, leaveCalls[p].ghost>> \in ghostsInRoom
        /\ <<LeaveRoom, leaveCalls[p].ghost>> \in joined
        /\ GetRoomOp(LeaveRoom) = leaveCalls[p].ghost

\* ------------------------------------------------------ reconcile claims
\* C37: when getMxid reconciles a stored room, the client it goes on with
\* after getRoomOp (the one its state writes are sent with) is the recorded
\* operator, or the bot when no operator is recorded or the recorded one gave
\* no client.
C37_WritesSentAsOperatorOrBot ==
    [][\A p \in DOMAIN roomCalls :
          LET c == roomCalls[p]
              d == roomCalls'[p]
              op == GetRoomOp(c.mxid)
          IN (c.op = "getMxid" /\ c.pc = "getRoomOp" /\ d.pc \in {"profileOld", "sendName"})
             => \/ d.client = op
                \/ d.client = BotUser /\ op \notin Ghosts]_vars

C8_AllMappingsRemoved ==
    deleteCall.pc \in {"done", "thrown"}
    => \A r \in roomStore : r.key[1] # deleteCall.puppetId

\* C25: every step that adds, changes or removes a room mapping of a key is
\* taken while the lock of that key is held.
C25_MappingWritesUnderLock ==
    [][\A r \in (roomStore \ roomStore') \cup (roomStore' \ roomStore) :
          /\ r.key \in DOMAIN mxidLock
          /\ mxidLock[r.key] # NoHolder]_vars

\* C26: once a deleteForPuppet call and the getMxid reconciliations of the
\* deleted key have all ended, no room mapping of the key is persisted.
C26_DeletedMappingStaysDeleted ==
    (/\ deleteCall.pc = "done"
     /\ \A p \in DOMAIN roomCalls : roomCalls[p].pc \in {"done", "thrown"})
    => \A r \in roomStore : r.key[1] # deleteCall.puppetId

\* C31: while one room is deleted, whatever a cleanup call answers (the reset
\* of the canonical alias, the removal of an alias, the leave of the bot, the
\* leave of a ghost), the cleanup calls that come after it for the room are
\* still made: the aliases are fetched after the reset, every fetched alias
\* is tried, the ghosts are fetched after the leave of the bot, every ghost is
\* tried, and the recorded ghost set of the room is emptied last.
C31_CleanupStepsAllAttempted ==
    [][LET c == deleteCall
           d == deleteCall'
       IN d # c
          => /\ c.pc = "canonicalAlias" => d.pc = "getAliases"
             /\ (c.pc = "deleteAlias" /\ Cardinality(c.aliases) > 1) => d.pc = "deleteAlias"
             /\ c.pc = "botLeave" => d.pc = "getGhosts"
             /\ c.pc = "ghostLeave"
                => d.pc = IF c.ghosts = {} THEN "emptyGhosts" ELSE "deleteGhost"
             /\ c.pc = "emptyGhosts"
                => \A g \in Ghosts : <<c.entry.mxid, g>> \notin ghostsInRoom']_vars

\* ---- the continuation of getClient, on its own ----

\* the outcomes of the member write inside updateRoomOverride
UpdateOutcomes == {"sent", "forbidden", "failed"}

ContinuationInit ==
    /\ PuppetStart
    /\ RoomStart
    /\ UserStart
    /\ UploadStart
    /\ RedactStart
    /\ groupSyncEnabled = FALSE
    /\ overrideStore \in [OverrideRooms -> {NoUser, [name |-> "a"]}]
    /\ memberNames = [r \in OverrideRooms |-> IF overrideStore[r] = NoUser THEN ""
                                              ELSE overrideStore[r].name]
    /\ overrideCall = IdleOverrideCall
    /\ InfoStart

ContinuationNext ==
    \/ \E overrides \in SUBSET OverrideRooms, changed \in BOOLEAN :
          ContinuationStart(overrides, changed)
    \/ \E r \in OverrideRooms, name \in {"a", "b"}, outcome \in UpdateOutcomes :
          ContinuationUpdateDone(r, name, outcome)
    \/ ContinuationGetAll
    \/ ContinuationGetAllFail
    \/ \E r \in OverrideRooms, sent \in BOOLEAN : ContinuationSetRoomOverride(r, sent)

SpecContinuation == ContinuationInit /\ [][ContinuationNext]_vars

\* ---- continuation claims ----

\* C36: once the continuation of getClient has run, every room of the request's
\* roomOverrides was handed to updateRoomOverride exactly once and no other room
\* was; a stored override of another room was handed to setRoomOverride exactly
\* once when the global name or avatar changed in the call, and never when
\* neither changed; no room went through both
C36_OverridesUpdatedOrReapplied ==
    /\ bgCall.pc # "idle"
       => \A r \in OverrideRooms :
             bgCall.updated[r] = IF r \in bgCall.overrides THEN 1 ELSE 0
    /\ bgCall.pc = "done"
       => \A r \in OverrideRooms :
             bgCall.reapplied[r] = IF /\ bgCall.changed
                                      /\ r \notin bgCall.overrides
                                      /\ r \in StoredOverrides
                                   THEN 1 ELSE 0
    /\ \A r \in OverrideRooms : ~(bgCall.updated[r] > 0 /\ bgCall.reapplied[r] > 0)

C36_Witness ==
    /\ bgCall.pc = "done"
    /\ bgCall.changed
    /\ bgCall.overrides = {"!r1"}
    /\ bgCall.updating = {}
    /\ bgCall.applying = {}
    /\ StoredOverrides = OverrideRooms
    /\ bgCall.updated = [r \in OverrideRooms |-> IF r = "!r1" THEN 1 ELSE 0]
    /\ bgCall.reapplied = [r \in OverrideRooms |-> IF r = "!r2" THEN 1 ELSE 0]

====
